---- MODULE Spec2Model ----
(***************************************************************************)
(* Model of the synthesizable containers of catalog/db.py and of the       *)
(* synthesis engine of catalog/synthesis.py.                               *)
(*                                                                         *)
(* Each container has its own specification (SpecIntSet, SpecBST,          *)
(* SpecHeap): the containers share no state, so each is explored with the  *)
(* variables of the others left at their initial values.                   *)
(***************************************************************************)
EXTENDS Integers, Sequences, FiniteSets, TLC

VARIABLES
    is_encoding,   \* IntSet._encoding: bytes per element (2, 4 or 8)
    is_length,     \* IntSet._length: number of integers in the set
    is_contents,   \* IntSet._contents: the byte buffer (one record per byte)
    is_ret,        \* the last IntSet operation, its argument and its outcome
    is_ref,        \* reference set: values added and not deleted since
    is_need,       \* smallest width that fits every value passed to add so far
    is_nsynth,     \* number of synthesize calls made so far
    bst_root,      \* BinarySearchTree.root
    bst_ret,       \* the last tree operation and its outcome
    bst_dom,       \* type of the keys of the current tree ("int" or "str")
    bst_mode,      \* "keyed" or "valued": whether the first insert gave a key
    bst_ref,       \* reference set: keys (values) inserted and not deleted since
    bst_nsynth,    \* number of tree synthesize calls made so far
    heap_default,  \* the list object that is the default of __init__'s initial
    heap_own,      \* per heap instance: the list it was constructed from
    heap_ref,      \* per heap instance: "none", "default" or "own" (its _heap)
    heap_ret,      \* the last heap operation and its outcome
    heap_nsynth,   \* number of heap synthesize calls made so far
    sl_list,       \* the elements of the SynthesizableSortedList, in list order
    sl_ret,        \* the last sorted-list operation and its outcome
    sl_nsynth,     \* number of sorted-list synthesis calls made so far
    ht_table,      \* SynthesizableHashTable._hash_table: the buckets, each a
                   \* sequence of <<key, value>> pairs
    ht_ret,        \* the last hash-table operation and what it returned or
                   \* raised, with the key of a get or a synthesis
    ht_ref,        \* ghost: the <<key, value>> pairs that the set and delete
                   \* calls made so far leave live, less those whose key a
                   \* synthesis has replaced
    syn_ret,       \* the last call of a synthesizer: its arguments and outcome
    cu_set,        \* an IntSet shared by a writer and a reader: its _encoding,
                   \* _length and _contents
    cu_add,        \* the writer's position in _upgrade_and_add and its locals
    cu_ret,        \* the reader's last find: its argument, what it returned or
                   \* raised, and where the writer was
    cu_ref,        \* reference set: the values of the adds that have returned
    sg_lists,      \* SortedList._lists: the sublists of a list with several
    sg_maxes,      \* SortedList._maxes: the cached maximum of each sublist
    sg_ret         \* the last operation on that list and the element addressed

is_vars == <<is_encoding, is_length, is_contents, is_ret, is_ref, is_need, is_nsynth>>

bst_vars == <<bst_root, bst_ret, bst_dom, bst_mode, bst_ref, bst_nsynth>>

heap_vars == <<heap_default, heap_own, heap_ref, heap_ret, heap_nsynth>>

\* what an operation on one container leaves alone: the other containers
sl_vars == <<sl_list, sl_ret, sl_nsynth>>
ht_vars == <<ht_table, ht_ret, ht_ref>>

syn_vars == <<syn_ret>>

cu_vars == <<cu_set, cu_add, cu_ret, cu_ref>>

sg_vars == <<sg_lists, sg_maxes, sg_ret>>

is_others == <<bst_vars, heap_vars, sl_vars, ht_vars, syn_vars, cu_vars, sg_vars>>
bst_others == <<is_vars, heap_vars, sl_vars, ht_vars, syn_vars, cu_vars, sg_vars>>
heap_others == <<is_vars, bst_vars, sl_vars, ht_vars, syn_vars, cu_vars, sg_vars>>
sl_others == <<is_vars, bst_vars, heap_vars, ht_vars, syn_vars, cu_vars, sg_vars>>
ht_others == <<is_vars, bst_vars, heap_vars, sl_vars, syn_vars, cu_vars, sg_vars>>
syn_others == <<is_vars, bst_vars, heap_vars, sl_vars, ht_vars, cu_vars, sg_vars>>
cu_others == <<is_vars, bst_vars, heap_vars, sl_vars, ht_vars, syn_vars, sg_vars>>
sg_others == <<is_vars, bst_vars, heap_vars, sl_vars, ht_vars, syn_vars, cu_vars>>

-----------------------------------------------------------------------------
(***************************************************************************)
(* Python integers.  TLC's integers are 32 bits wide, IntSet stores 64-bit *)
(* values, so a Python int is a sign and a magnitude of NDigits base-256   *)
(* digits, most significant first.  Zero is never negative.                *)
(***************************************************************************)
NDigits == 8
ByteBase == 256
SignByte == 128

MagZero == [i \in 1..NDigits |-> 0]

\* a < b on magnitudes
MagLt(a, b) ==
    \E i \in 1..NDigits : a[i] < b[i] /\ \A j \in 1..(i-1) : a[j] = b[j]

\* Python's < on ints
IntLt(a, b) ==
    IF a.neg # b.neg THEN a.neg
    ELSE IF a.neg THEN MagLt(b.mag, a.mag) ELSE MagLt(a.mag, b.mag)

IntGt(a, b) == IntLt(b, a)
IntLe(a, b) == ~IntLt(b, a)

\* digits + 1, modulo ByteBase^Len(d)
DigitsInc(d) ==
    [i \in 1..Len(d) |->
        IF \A j \in (i+1)..Len(d) : d[j] = ByteBase - 1
        THEN (d[i] + 1) % ByteBase ELSE d[i]]

\* digits - 1, modulo ByteBase^Len(d)
DigitsDec(d) ==
    [i \in 1..Len(d) |->
        IF \A j \in (i+1)..Len(d) : d[j] = 0
        THEN (d[i] + ByteBase - 1) % ByteBase ELSE d[i]]

\* two's complement negation of a digit string of any length
DigitsNeg(d) == DigitsInc([i \in 1..Len(d) |-> ByteBase - 1 - d[i]])

MkInt(neg, mag) == [neg |-> neg /\ mag # MagZero, mag |-> mag]

\* the Python int of a TLC integer n with |n| < 2^31
PyInt(n) ==
    LET a == IF n < 0 THEN 0 - n ELSE n
    IN  MkInt(n < 0, <<0, 0, 0, 0, (a \div 16777216) % ByteBase,
                       (a \div 65536) % ByteBase, (a \div 256) % ByteBase,
                       a % ByteBase>>)

\* v + 1 and v - 1 (defined while the magnitude stays below 256^NDigits)
IntSucc(v) ==
    IF v.neg THEN MkInt(TRUE, DigitsDec(v.mag)) ELSE MkInt(FALSE, DigitsInc(v.mag))

IntPred(v) ==
    IF v.neg THEN MkInt(TRUE, DigitsInc(v.mag))
    ELSE IF v.mag = MagZero THEN MkInt(TRUE, DigitsInc(MagZero))
    ELSE MkInt(FALSE, DigitsDec(v.mag))

\* int.to_bytes(length, byteorder='big', signed=True) raises OverflowError
\* when the value does not fit in length bytes
FitsBytes(v, length) ==
    LET full == IF v.neg THEN DigitsNeg(v.mag) ELSE v.mag
        ext  == IF v.neg THEN ByteBase - 1 ELSE 0
        top  == full[NDigits - length + 1]
    IN  /\ \A i \in 1..(NDigits - length) : full[i] = ext
        /\ IF v.neg THEN top >= SignByte ELSE top < SignByte

\* int.to_bytes(length, byteorder='big', signed=True) for a value that fits
ToBytes(v, length) ==
    LET full == IF v.neg THEN DigitsNeg(v.mag) ELSE v.mag
    IN  SubSeq(full, NDigits - length + 1, NDigits)

\* int.from_bytes(bs, byteorder='big', signed=True)
FromBytes(bs) ==
    LET n   == Len(bs)
        pad == [i \in 1..(NDigits - n) |-> 0]
    IN  IF n = 0 THEN MkInt(FALSE, MagZero)
        ELSE IF bs[1] >= SignByte THEN MkInt(TRUE, pad \o DigitsNeg(bs))
        ELSE MkInt(FALSE, pad \o bs)

-----------------------------------------------------------------------------
(***************************************************************************)
(* IntSet and SynthesizableIntSet (catalog/db.py)                          *)
(***************************************************************************)
INTSET_ENC_INT16 == 2
INTSET_ENC_INT32 == 4
INTSET_ENC_INT64 == 8

INT16_MIN == PyInt(-32768)
INT16_MAX == PyInt(32767)
INT32_MIN == IntPred(PyInt(-2147483647))
INT32_MAX == PyInt(2147483647)

\* UntrustedInt(value, synthesized=...)
UntrustedInt(v, synthesized) == [int |-> v, synthesized |-> synthesized]

\* a slot of _contents that extend([None] * n) added and nothing wrote yet
NoneByte == [b |-> 0 - 1, synthesized |-> FALSE]

\* n copies of None
Nones(n) == [i \in 1..n |-> NoneByte]

\* mutant of GetEncoding: the range tests include the limits
GetEncoding_LimitsExcluded(value) ==
    IF IntLe(value, INT32_MIN) \/ IntLe(INT32_MAX, value) THEN INTSET_ENC_INT64
    ELSE IF IntLe(value, INT16_MIN) \/ IntLe(INT16_MAX, value) THEN INTSET_ENC_INT32
    ELSE INTSET_ENC_INT16

\* IntSet._get_encoding(value)
GetEncoding(value) ==
    IF IntLt(value, INT32_MIN) \/ IntGt(value, INT32_MAX) THEN INTSET_ENC_INT64
    ELSE IF IntLt(value, INT16_MIN) \/ IntGt(value, INT16_MAX) THEN INTSET_ENC_INT32
    ELSE INTSET_ENC_INT16

\* SynthesizableIntSet.__getitem__ raises (IndexError, AttributeError) when a
\* byte of the element is beyond the buffer or is still None
GetItemOk(contents, pos, encoding) ==
    /\ pos >= 0
    /\ (pos + 1) * encoding <= Len(contents)
    /\ \A k \in 1..encoding : contents[pos * encoding + k] # NoneByte

\* SynthesizableIntSet.__getitem__(pos, encoding): pos counts elements from 0
GetItem(contents, pos, encoding) ==
    UntrustedInt(FromBytes([k \in 1..encoding |-> contents[pos * encoding + k].b]),
                 \E k \in 1..encoding : contents[pos * encoding + k].synthesized)

\* mutant of SetItem: the bytes written do not carry the flag of the value
SetItem_Unflagged(contents, self_encoding, pos, value, encoding) ==
    LET byte_arr == ToBytes(value.int, self_encoding)
    IN  [i \in 1..Len(contents) |->
            IF pos * encoding < i /\ i <= (pos + 1) * encoding
            THEN [b |-> byte_arr[i - pos * encoding], synthesized |-> FALSE]
            ELSE contents[i]]

\* SynthesizableIntSet.__setitem__(pos, value, encoding) on a set whose
\* _encoding is self_encoding; the caller has checked that the value fits and
\* that the slot exists
SetItem(contents, self_encoding, pos, value, encoding) ==
    LET byte_arr == ToBytes(value.int, self_encoding)
    IN  [i \in 1..Len(contents) |->
            IF pos * encoding < i /\ i <= (pos + 1) * encoding
            THEN [b |-> byte_arr[i - pos * encoding], synthesized |-> value.synthesized]
            ELSE contents[i]]

\* the binary search loop of IntSet._search
RECURSIVE SearchLoop(_, _, _, _, _)
SearchLoop(contents, encoding, value, min_pos, max_pos) ==
    IF max_pos < min_pos THEN <<0, min_pos>>
    ELSE LET mid_pos == (min_pos + max_pos) \div 2
             cur     == GetItem(contents, mid_pos, encoding).int
         IN  IF IntGt(value, cur)
                 THEN SearchLoop(contents, encoding, value, mid_pos + 1, max_pos)
             ELSE IF IntLt(value, cur)
                 THEN SearchLoop(contents, encoding, value, min_pos, mid_pos - 1)
             ELSE <<1, mid_pos>>

\* IntSet._search(value): <<1, pos>> when found at pos, <<0, pos>> with the
\* insertion position otherwise
Search(contents, length, encoding, value) ==
    IF length = 0 THEN <<0, 0>>
    ELSE IF IntGt(value, GetItem(contents, length - 1, encoding).int) THEN <<0, length>>
    ELSE IF IntLt(value, GetItem(contents, 0, encoding).int) THEN <<0, 0>>
    ELSE SearchLoop(contents, encoding, value, 0, length - 1)

\* IntSet.find(value): Python's "and" yields False, or the 0/1 of _search
Find(contents, length, encoding, value) ==
    IF GetEncoding(value) <= encoding
    THEN IF Search(contents, length, encoding, value)[1] = 1 THEN "1" ELSE "0"
    ELSE "False"

Truthy(out) == out \in {"1", "True"}

\* mutant of UpgradeLoop: re-encodes front to back
RECURSIVE UpgradeLoop_FrontToBack(_, _, _, _, _)
UpgradeLoop_FrontToBack(contents, i, prepend, old_encoding, new_encoding) ==
    IF i < 0 THEN contents
    ELSE LET done == UpgradeLoop_FrontToBack(contents, i - 1, prepend,
                                             old_encoding, new_encoding)
         IN  SetItem(done, new_encoding, i + prepend,
                     GetItem(done, i, old_encoding), new_encoding)

\* the re-encoding loop of IntSet._upgrade_and_add, from element i down to 0
RECURSIVE UpgradeLoop(_, _, _, _, _)
UpgradeLoop(contents, i, prepend, old_encoding, new_encoding) ==
    IF i < 0 THEN contents
    ELSE UpgradeLoop(SetItem(contents, new_encoding, i + prepend,
                             GetItem(contents, i, old_encoding), new_encoding),
                     i - 1, prepend, old_encoding, new_encoding)

\* IntSet._upgrade_and_add(value): the new <<encoding, length, contents>>
UpgradeAndAdd(contents, length, encoding, value) ==
    LET prepend      == IF value.int.neg THEN 1 ELSE 0
        new_encoding == GetEncoding(value.int)
        extended     == contents \o Nones(length * (new_encoding - encoding) + new_encoding)
        upgraded     == UpgradeLoop(extended, length - 1, prepend, encoding, new_encoding)
        pos          == IF prepend = 1 THEN 0 ELSE length
    IN  <<new_encoding, length + 1,
          SetItem(upgraded, new_encoding, pos, value, new_encoding)>>

\* the two copy loops of IntSet._move_tail; i counts the bytes already copied
RECURSIVE MoveForward(_, _, _, _, _)
MoveForward(contents, i, bytes_to_move, src, dst) ==
    IF i >= bytes_to_move THEN contents
    ELSE MoveForward([contents EXCEPT ![dst + i + 1] = contents[src + i + 1]],
                     i + 1, bytes_to_move, src, dst)

RECURSIVE MoveBackward(_, _, _, _)
MoveBackward(contents, i, src, dst) ==
    IF i < 0 THEN contents
    ELSE MoveBackward([contents EXCEPT ![dst + i + 1] = contents[src + i + 1]],
                      i - 1, src, dst)

\* mutant of MoveTail: copies forward whatever the direction of the move
MoveTail_AlwaysForward(contents, length, encoding, from_pos, to_pos) ==
    MoveForward(contents, 0, (length - from_pos) * encoding,
                encoding * from_pos, encoding * to_pos)

\* IntSet._move_tail(from_pos, to_pos)
MoveTail(contents, length, encoding, from_pos, to_pos) ==
    LET bytes_to_move == (length - from_pos) * encoding
        src == encoding * from_pos
        dst == encoding * to_pos
    IN  IF src > dst THEN MoveForward(contents, 0, bytes_to_move, src, dst)
        ELSE IF src < dst THEN MoveBackward(contents, bytes_to_move - 1, src, dst)
        ELSE contents

\* mutant of AddResult: the buffer is extended before the search
AddResult_ExtendFirst(contents, length, encoding, value) ==
    IF GetEncoding(value.int) > encoding
    THEN UpgradeAndAdd(contents, length, encoding, value)
    ELSE LET found    == Search(contents, length, encoding, value.int)
             pos      == found[2]
             extended == contents \o Nones(encoding)
             moved    == IF pos < length
                         THEN MoveTail(extended, length, encoding, pos, pos + 1)
                         ELSE extended
         IN  IF found[1] = 1 THEN <<encoding, length, extended>>
             ELSE <<encoding, length + 1, SetItem(moved, encoding, pos, value, encoding)>>

\* IntSet.add(value): the new <<encoding, length, contents>>
AddResult(contents, length, encoding, value) ==
    IF GetEncoding(value.int) > encoding
    THEN UpgradeAndAdd(contents, length, encoding, value)
    ELSE LET found    == Search(contents, length, encoding, value.int)
             pos      == found[2]
             extended == contents \o Nones(encoding)
             moved    == IF pos < length
                         THEN MoveTail(extended, length, encoding, pos, pos + 1)
                         ELSE extended
         IN  IF found[1] = 1 THEN <<encoding, length, contents>>
             ELSE <<encoding, length + 1, SetItem(moved, encoding, pos, value, encoding)>>

\* mutant of DeleteResult: drops the last element without moving the tail
DeleteResult_NoMove(contents, length, encoding, value) ==
    IF GetEncoding(value) <= encoding
           /\ Search(contents, length, encoding, value)[1] = 1
    THEN <<encoding, length - 1, SubSeq(contents, 1, Len(contents) - encoding)>>
    ELSE <<encoding, length, contents>>

\* mutant of DeleteResult: an emptied set goes back to the 16-bit encoding
DeleteResult_Downgrade(contents, length, encoding, value) ==
    IF GetEncoding(value) <= encoding
           /\ Search(contents, length, encoding, value)[1] = 1
    THEN LET moved == IF Search(contents, length, encoding, value)[2] < length - 1
                      THEN MoveTail(contents, length, encoding,
                                    Search(contents, length, encoding, value)[2] + 1,
                                    Search(contents, length, encoding, value)[2])
                      ELSE contents
         IN  <<IF length = 1 THEN INTSET_ENC_INT16 ELSE encoding,
               length - 1, SubSeq(moved, 1, Len(moved) - encoding)>>
    ELSE <<encoding, length, contents>>

\* IntSet.delete(value): the new <<encoding, length, contents>>
DeleteResult(contents, length, encoding, value) ==
    IF GetEncoding(value) <= encoding
    THEN LET found == Search(contents, length, encoding, value)
             pos   == found[2]
             moved == IF pos < length - 1
                      THEN MoveTail(contents, length, encoding, pos + 1, pos)
                      ELSE contents
         IN  IF found[1] = 1
             THEN <<encoding, length - 1, SubSeq(moved, 1, Len(moved) - encoding)>>
             ELSE <<encoding, length, contents>>
    ELSE <<encoding, length, contents>>


\* mutant of SynthLowers: the element before pos is not a bound
SynthLowers_EncodingOnly(contents, length, encoding, pos) ==
    IF encoding = INTSET_ENC_INT16 THEN {INT16_MIN}
    ELSE IF encoding = INTSET_ENC_INT32 THEN {INT32_MIN} ELSE {}

\* init_synthesizer(value) for an UntrustedInt is an IntSynthesizer over the
\* unbounded integers; SynthesizableIntSet.synthesize adds strict bounds to it:
\* the values the synthesized integer must exceed
SynthLowers(contents, length, encoding, pos) ==
    (IF encoding = INTSET_ENC_INT16 THEN {INT16_MIN}
     ELSE IF encoding = INTSET_ENC_INT32 THEN {INT32_MIN} ELSE {})
    \cup (IF pos = 0 THEN {} ELSE {GetItem(contents, pos - 1, encoding).int})

\* the values the synthesized integer must stay below
SynthUppers(contents, length, encoding, pos) ==
    (IF encoding = INTSET_ENC_INT16 THEN {INT16_MAX}
     ELSE IF encoding = INTSET_ENC_INT32 THEN {INT32_MAX} ELSE {})
    \cup (IF pos = 0 THEN {GetItem(contents, pos + 1, encoding).int}
          ELSE IF pos = length - 1 THEN {}
          ELSE {GetItem(contents, pos + 1, encoding).int})

\* the models of a conjunction of strict integer bounds, sampled: the least and
\* the greatest model (one of them exists whenever any model does) and the
\* models among the values of pool
IntModels(lowers, uppers, pool) ==
    {v \in pool \cup {IntSucc(l) : l \in lowers} \cup {IntPred(u) : u \in uppers} :
        /\ \A l \in lowers : IntGt(v, l)
        /\ \A u \in uppers : IntLt(v, u)}

-----------------------------------------------------------------------------
(***************************************************************************)
(* The IntSet state machine.  The values handed to add, delete and find    *)
(* are 64-bit integers, the domain of the three encodings.                 *)
(***************************************************************************)
Widths == {INTSET_ENC_INT16, INTSET_ENC_INT32, INTSET_ENC_INT64}

\* the smallest of the three widths whose signed range holds every value of S
MinWidth(S) ==
    CHOOSE w \in Widths :
        /\ \A v \in S : FitsBytes(v, w)
        /\ \A u \in Widths : (\A v \in S : FitsBytes(v, u)) => w <= u

MaxLen == 4
MaxSynthLen == 3
MaxSynth == 1

BigNeg == MkInt(TRUE,  <<0, 0, 0, 0, 145, 225, 163, 99>>)   \* -2447483747
BigPos == MkInt(FALSE, <<0, 0, 0, 0, 145, 225, 162, 255>>)  \*  2447483647
INT64_MIN == MkInt(TRUE, <<SignByte, 0, 0, 0, 0, 0, 0, 0>>)
INT64_MAX == IntPred(MkInt(FALSE, <<SignByte, 0, 0, 0, 0, 0, 0, 0>>))

IntSetInputs ==
    {BigNeg, INT32_MIN, PyInt(-32769), PyInt(-7), PyInt(5), INT16_MAX,
     PyInt(35267), BigPos}

\* the values handed to a set that is also synthesized
SynthInputs == {PyInt(-32769), PyInt(32766), INT16_MAX, BigPos}

\* values the solver may pick besides the least and the greatest model
SynthPool == {PyInt(0), IntPred(INT64_MIN), IntSucc(INT64_MAX)}

\* the record of an operation: its name, its outcome (return value or exception)
\* and the encoding and length it found
IS_Ret(op, out) ==
    [op |-> op, out |-> out, enc0 |-> is_encoding, len0 |-> is_length]

IS_Init ==
    /\ is_encoding = INTSET_ENC_INT16
    /\ is_length = 0
    /\ is_contents = <<>>
    /\ is_ret = IS_Ret("init", "None")
    /\ is_ref = {}
    /\ is_need = INTSET_ENC_INT16
    /\ is_nsynth = 0

\* int_set.add(UntrustedInt(v))
IS_Add(v, max_len) ==
    /\ UNCHANGED is_others
    /\ is_length < max_len
    /\ LET r == AddResult(is_contents, is_length, is_encoding, UntrustedInt(v, FALSE))
       IN  /\ is_encoding' = r[1]
           /\ is_length' = r[2]
           /\ is_contents' = r[3]
    /\ is_ret' = IS_Ret("add", "None")
    /\ is_ref' = is_ref \cup {v}
    /\ is_need' = IF MinWidth({v}) > is_need THEN MinWidth({v}) ELSE is_need
    /\ UNCHANGED is_nsynth

\* int_set.delete(v)
IS_Delete(v) ==
    /\ UNCHANGED is_others
    /\ LET r == DeleteResult(is_contents, is_length, is_encoding, v)
       IN  /\ is_encoding' = r[1]
           /\ is_length' = r[2]
           /\ is_contents' = r[3]
    /\ is_ret' = IS_Ret("delete", "None")
    /\ is_ref' = is_ref \ {v}
    /\ UNCHANGED <<is_need, is_nsynth>>

\* int_set.find(v)
IS_Find(v) ==
    /\ UNCHANGED is_others
    /\ is_ret' = IS_Ret("find", Find(is_contents, is_length, is_encoding, v))
    /\ UNCHANGED <<is_encoding, is_length, is_contents, is_ref, is_need, is_nsynth>>

\* int_set.synthesize(pos)
IS_Synthesize(pos) ==
    /\ UNCHANGED is_others
    /\ is_nsynth < MaxSynth
    /\ is_nsynth' = is_nsynth + 1
    /\ UNCHANGED <<is_encoding, is_length, is_ref, is_need>>
    /\ IF pos >= is_length \/ pos < 0
       THEN \* raise IndexError('set index out of range')
            /\ is_ret' = IS_Ret("synthesize", "IndexError")
            /\ UNCHANGED is_contents
       ELSE IF pos = 0 /\ ~GetItemOk(is_contents, pos + 1, is_encoding)
       THEN \* __getitem__(pos+1) reads beyond the buffer
            /\ is_ret' = IS_Ret("synthesize", "IndexError")
            /\ UNCHANGED is_contents
       ELSE LET models == IntModels(SynthLowers(is_contents, is_length, is_encoding, pos),
                                    SynthUppers(is_contents, is_length, is_encoding, pos),
                                    SynthPool)
            IN  IF models = {}
                THEN \* to_python(None) is None, which __setitem__ rejects
                     /\ is_ret' = IS_Ret("synthesize", "ValueError")
                     /\ UNCHANGED is_contents
                ELSE \E v \in models :
                        IF FitsBytes(v, is_encoding)
                        THEN /\ is_contents' = SetItem(is_contents, is_encoding, pos,
                                                       UntrustedInt(v, TRUE), is_encoding)
                             /\ is_ret' = IS_Ret("synthesize", "True")
                        ELSE \* to_bytes raises before any byte is written
                             /\ is_ret' = IS_Ret("synthesize", "OverflowError")
                             /\ UNCHANGED is_contents

IS_NextBase ==
    \/ \E v \in IntSetInputs : IS_Add(v, MaxLen)
    \/ \E v \in IntSetInputs : IS_Delete(v)
    \/ \E v \in IntSetInputs : IS_Find(v)

IS_Next ==
    \/ \E v \in SynthInputs : IS_Add(v, MaxSynthLen)
    \/ \E v \in SynthInputs : IS_Delete(v)
    \/ \E pos \in (0 - 1)..MaxSynthLen : IS_Synthesize(pos)

-----------------------------------------------------------------------------
(***************************************************************************)
(* An IntSet shared by two threads (catalog/db.py takes no lock): a writer *)
(* calling add and a reader calling find.  An add that upgrades the        *)
(* encoding is either run to its end in one step or interleaved with the   *)
(* reader statement by statement of _upgrade_and_add.                      *)
(***************************************************************************)
MaxSharedSetLen == 3

SharedInputs == {PyInt(-70000), PyInt(1), PyInt(2), PyInt(70000)}

\* the values the reader looks for
SharedProbes == SharedInputs \cup {PyInt(65538)}

\* IntSet.__getitem__(pos, encoding) on a buffer that may be too short or hold
\* None: the slice stops at the end of the list, and int.from_bytes raises
\* TypeError on None
SliceItem(contents, pos, encoding) ==
    LET lo == IF pos * encoding < Len(contents) THEN pos * encoding ELSE Len(contents)
        hi == IF (pos + 1) * encoding < Len(contents) THEN (pos + 1) * encoding
              ELSE Len(contents)
        bs == [k \in 1..(hi - lo) |-> contents[lo + k]]
    IN  IF \E k \in 1..(hi - lo) : bs[k] = NoneByte
        THEN [err |-> "TypeError", int |-> PyInt(0)]
        ELSE [err |-> "", int |-> FromBytes([k \in 1..(hi - lo) |-> bs[k].b])]

\* the binary search loop of IntSet._search on such a buffer: "1", "0" or the
\* exception raised
RECURSIVE SharedSearchLoop(_, _, _, _, _)
SharedSearchLoop(contents, encoding, value, min_pos, max_pos) ==
    IF max_pos < min_pos THEN "0"
    ELSE LET mid_pos == (min_pos + max_pos) \div 2
             cur     == SliceItem(contents, mid_pos, encoding)
         IN  IF cur.err # "" THEN cur.err
             ELSE IF IntGt(value, cur.int)
                 THEN SharedSearchLoop(contents, encoding, value, mid_pos + 1, max_pos)
             ELSE IF IntLt(value, cur.int)
                 THEN SharedSearchLoop(contents, encoding, value, min_pos, mid_pos - 1)
             ELSE "1"

\* IntSet.find(value) on the set as another thread has left it
SharedFind(set, value) ==
    LET last  == SliceItem(set.contents, set.length - 1, set.encoding)
        first == SliceItem(set.contents, 0, set.encoding)
    IN  IF GetEncoding(value) > set.encoding THEN "False"
        ELSE IF set.length = 0 THEN "0"
        ELSE IF last.err # "" THEN last.err
        ELSE IF IntGt(value, last.int) THEN "0"
        ELSE IF first.err # "" THEN first.err
        ELSE IF IntLt(value, first.int) THEN "0"
        ELSE SharedSearchLoop(set.contents, set.encoding, value, 0, set.length - 1)

Idle == [pc |-> "idle"]

CU_Init ==
    /\ cu_set = [encoding |-> INTSET_ENC_INT16, length |-> 0, contents |-> <<>>]
    /\ cu_add = Idle
    /\ cu_ret = [op |-> "init"]
    /\ cu_ref = {}

\* writer: int_set.add(value) from call to return with no reader in between
CU_Add(value) ==
    /\ UNCHANGED cu_others
    /\ cu_add = Idle
    /\ cu_set.length < MaxSharedSetLen
    /\ LET r == AddResult(cu_set.contents, cu_set.length, cu_set.encoding,
                          UntrustedInt(value, FALSE))
       IN  cu_set' = [encoding |-> r[1], length |-> r[2], contents |-> r[3]]
    /\ cu_ref' = cu_ref \cup {value}
    /\ UNCHANGED <<cu_add, cu_ret>>

\* writer: add(value) enters _upgrade_and_add and assigns self._encoding
CU_SetEncoding(value) ==
    /\ UNCHANGED cu_others
    /\ cu_add = Idle
    /\ cu_set.length < MaxSharedSetLen
    /\ GetEncoding(value) > cu_set.encoding
    /\ cu_add' = [pc |-> "extend", value |-> value,
                  prepend |-> IF value.neg THEN 1 ELSE 0,
                  old_encoding |-> cu_set.encoding, i |-> cu_set.length - 1]
    /\ cu_set' = [cu_set EXCEPT !.encoding = GetEncoding(value)]
    /\ UNCHANGED <<cu_ret, cu_ref>>

\* writer: self._contents.extend([None] * ...)
CU_Extend ==
    /\ UNCHANGED cu_others
    /\ cu_add.pc = "extend"
    /\ cu_set' = [cu_set EXCEPT !.contents =
                    @ \o Nones(cu_set.length * (cu_set.encoding - cu_add.old_encoding)
                               + cu_set.encoding)]
    /\ cu_add' = [cu_add EXCEPT !.pc = "loop"]
    /\ UNCHANGED <<cu_ret, cu_ref>>

\* writer: one iteration of the re-encoding loop
CU_Reencode ==
    /\ UNCHANGED cu_others
    /\ cu_add.pc = "loop"
    /\ cu_add.i >= 0
    /\ cu_set' = [cu_set EXCEPT !.contents =
                    SetItem(@, cu_set.encoding, cu_add.i + cu_add.prepend,
                            GetItem(@, cu_add.i, cu_add.old_encoding), cu_set.encoding)]
    /\ cu_add' = [cu_add EXCEPT !.i = @ - 1]
    /\ UNCHANGED <<cu_ret, cu_ref>>

\* writer: the loop is over; the value is set at the beginning or at the end
CU_SetValue ==
    /\ UNCHANGED cu_others
    /\ cu_add.pc = "loop"
    /\ cu_add.i < 0
    /\ cu_set' = [cu_set EXCEPT !.contents =
                    SetItem(@, cu_set.encoding,
                            IF cu_add.prepend = 1 THEN 0 ELSE cu_set.length,
                            UntrustedInt(cu_add.value, FALSE), cu_set.encoding)]
    /\ cu_add' = [cu_add EXCEPT !.pc = "length"]
    /\ UNCHANGED <<cu_ret, cu_ref>>

\* writer: self._length += 1, and add returns
CU_SetLength ==
    /\ UNCHANGED cu_others
    /\ cu_add.pc = "length"
    /\ cu_set' = [cu_set EXCEPT !.length = @ + 1]
    /\ cu_ref' = cu_ref \cup {cu_add.value}
    /\ cu_add' = Idle
    /\ UNCHANGED cu_ret

\* reader: int_set.find(value), wherever the writer is
CU_Find(value) ==
    /\ UNCHANGED cu_others
    /\ cu_ret' = [op |-> "find", value |-> value, out |-> SharedFind(cu_set, value),
                  pc |-> cu_add.pc,
                  before |-> value \in cu_ref,
                  after |-> value \in cu_ref \/ (cu_add # Idle /\ value = cu_add.value)]
    /\ UNCHANGED <<cu_set, cu_add, cu_ref>>

CU_Next ==
    \/ \E value \in SharedInputs : CU_Add(value)
    \/ \E value \in SharedInputs : CU_SetEncoding(value)
    \/ CU_Extend
    \/ CU_Reencode
    \/ CU_SetValue
    \/ CU_SetLength
    \/ \E value \in SharedProbes : CU_Find(value)

-----------------------------------------------------------------------------
(***************************************************************************)
(* Python values held by the tree and the heap: UntrustedInt, UntrustedStr *)
(* (a sequence of character codes), None and False.  Comparison and        *)
(* equality look at the raw value only; < and > between values of          *)
(* different types raise TypeError.  The raw value v is a sequence: the    *)
(* one integer of an int, the character codes of a str.                    *)
(***************************************************************************)
PyNone == [t |-> "none", v |-> <<>>, synthesized |-> FALSE]
PyFalse == [t |-> "bool", v |-> <<>>, synthesized |-> FALSE]
PInt(n, synthesized) == [t |-> "int", v |-> <<n>>, synthesized |-> synthesized]
PStr(s, synthesized) == [t |-> "str", v |-> s, synthesized |-> synthesized]

\* bool(x): None, False, 0 and the empty string are false
PyBool(x) ==
    IF x.t = "int" THEN x.v[1] # 0
    ELSE IF x.t = "str" THEN x.v # <<>>
    ELSE FALSE

\* s < t on strings: lexicographic by character code
StrLt(s, t) ==
    \E i \in 1..Len(t) :
        /\ i <= Len(s) + 1
        /\ \A j \in 1..(i - 1) : s[j] = t[j]
        /\ (i = Len(s) + 1 \/ s[i] < t[i])

\* a < b and a > b are defined (no TypeError)
PyComparable(a, b) == a.t = b.t /\ a.t \in {"int", "str"}

\* a < b for comparable values
PyLt(a, b) == IF a.t = "int" THEN a.v[1] < b.v[1] ELSE StrLt(a.v, b.v)

\* a == b
PyEq(a, b) == a.t = b.t /\ a.v = b.v

-----------------------------------------------------------------------------
(***************************************************************************)
(* BinarySearchTree (catalog/db.py).  A BiNode is <<val, key, left,        *)
(* right>>, an absent child is Nil; a node of the tree is named by its     *)
(* path from the root (a sequence of "L" and "R").                         *)
(***************************************************************************)
Nil == <<>>

\* BiNode(val, key=key)
BiNode(val, key) == <<val, key, Nil, Nil>>

\* BiNode.has_key()
HasKey(node) == PyBool(node[2])

\* the value a node is ordered by in _find_node and _delete_node
CurrVal(node) == IF PyBool(node[2]) THEN node[2] ELSE node[1]

Outcome(err, tree) == [err |-> err, tree |-> tree]

\* BinarySearchTree._insert_node(curr, val, key): the subtree after the call,
\* and whether a comparison raised TypeError
RECURSIVE InsertNode(_, _, _)
InsertNode(curr, val, key) ==
    LET a == IF PyBool(key) THEN key ELSE val
        b == IF PyBool(key) THEN curr[2] ELSE curr[1]
    IN  IF ~PyComparable(a, b) THEN Outcome(TRUE, curr)
        ELSE IF PyLt(a, b)
        THEN IF curr[3] # Nil
             THEN LET r == InsertNode(curr[3], val, key)
                  IN  Outcome(r.err, <<curr[1], curr[2], r.tree, curr[4]>>)
             ELSE Outcome(FALSE, <<curr[1], curr[2], BiNode(val, key), curr[4]>>)
        ELSE IF PyLt(b, a)
        THEN IF curr[4] # Nil
             THEN LET r == InsertNode(curr[4], val, key)
                  IN  Outcome(r.err, <<curr[1], curr[2], curr[3], r.tree>>)
             ELSE Outcome(FALSE, <<curr[1], curr[2], curr[3], BiNode(val, key)>>)
        ELSE Outcome(FALSE, curr)

\* BinarySearchTree.insert(val, key): the value returned (or the exception)
\* and the tree after the call
Insert(root, val, key) ==
    IF root = Nil THEN [out |-> "None", tree |-> BiNode(val, key)]
    ELSE IF HasKey(root) /\ ~PyBool(key) THEN [out |-> "False", tree |-> root]
    ELSE IF ~HasKey(root) /\ PyBool(key) THEN [out |-> "False", tree |-> root]
    ELSE LET r == InsertNode(root, val, key)
         IN  [out |-> IF r.err THEN "TypeError" ELSE "None", tree |-> r.tree]

\* BinarySearchTree._find_node(curr, key_or_val): "node" and the path of the
\* node found, "None", or "TypeError"
RECURSIVE FindNode(_, _, _)
FindNode(curr, key_or_val, path) ==
    IF curr = Nil THEN [out |-> "None", path |-> path]
    ELSE LET curr_val == CurrVal(curr)
         IN  IF PyEq(key_or_val, curr_val) THEN [out |-> "node", path |-> path]
             ELSE IF ~PyComparable(key_or_val, curr_val)
                 THEN [out |-> "TypeError", path |-> path]
             ELSE IF PyLt(curr_val, key_or_val)
                 THEN FindNode(curr[4], key_or_val, Append(path, "R"))
             ELSE FindNode(curr[3], key_or_val, Append(path, "L"))

\* BinarySearchTree.find(key_or_val)
BstFind(root, key_or_val) == FindNode(root, key_or_val, <<>>)

\* BinarySearchTree._min_value_node(node), for a node that is not None
RECURSIVE MinValueNode(_)
MinValueNode(node) == IF node[3] # Nil THEN MinValueNode(node[3]) ELSE node

\* BinarySearchTree._max_value_node(node), for a node that is not None
RECURSIVE MaxValueNode(_)
MaxValueNode(node) == IF node[4] # Nil THEN MaxValueNode(node[4]) ELSE node

\* BinarySearchTree._delete_node(curr, key_or_val): the subtree the call
\* returns; when a comparison raises TypeError, the subtree as the call left it
RECURSIVE DeleteNode(_, _)
DeleteNode(curr, key_or_val) ==
    IF curr = Nil THEN Outcome(FALSE, Nil)
    ELSE LET curr_val == IF HasKey(curr) THEN curr[2] ELSE curr[1]
         IN  IF ~PyComparable(key_or_val, curr_val) THEN Outcome(TRUE, curr)
             ELSE IF PyLt(key_or_val, curr_val)
             THEN LET r == DeleteNode(curr[3], key_or_val)
                  IN  Outcome(r.err, <<curr[1], curr[2], r.tree, curr[4]>>)
             ELSE IF PyLt(curr_val, key_or_val)
             THEN LET r == DeleteNode(curr[4], key_or_val)
                  IN  Outcome(r.err, <<curr[1], curr[2], curr[3], r.tree>>)
             ELSE IF curr[3] = Nil THEN Outcome(FALSE, curr[4])
             ELSE IF curr[4] = Nil THEN Outcome(FALSE, curr[3])
             ELSE LET candidate == MinValueNode(curr[4])
                      new_key   == IF HasKey(curr) THEN candidate[2] ELSE curr[2]
                      next      == IF HasKey(curr) THEN candidate[2] ELSE candidate[1]
                      r         == DeleteNode(curr[4], next)
                  IN  Outcome(r.err, <<candidate[1], new_key, curr[3], r.tree>>)

\* BinarySearchTree.delete(key_or_val)
BstDelete(root, key_or_val) ==
    LET r == DeleteNode(root, key_or_val)
    IN  [out |-> IF r.err THEN "TypeError" ELSE "None", tree |-> r.tree]

\* BinarySearchTree.to_ordered_list(node, []): the nodes in order, each as
\* <<val, key>>
RECURSIVE ToOrderedList(_)
ToOrderedList(node) ==
    IF node = Nil THEN <<>>
    ELSE ToOrderedList(node[3]) \o <<<<node[1], node[2]>>>> \o ToOrderedList(node[4])

\* the paths of the nodes of a tree
RECURSIVE Paths(_, _)
Paths(node, path) ==
    IF node = Nil THEN {}
    ELSE {path} \cup Paths(node[3], Append(path, "L"))
                \cup Paths(node[4], Append(path, "R"))

\* the node at a path
RECURSIVE NodeAt(_, _)
NodeAt(node, path) ==
    IF path = <<>> THEN node
    ELSE NodeAt(IF Head(path) = "L" THEN node[3] ELSE node[4], Tail(path))

\* BinarySearchTree.get(key): n = self.find(key); return n.val.  "value" and
\* the val of the node found, or the exception: None has no attribute val.
BstGet(root, key) ==
    LET n == BstFind(root, key)
    IN  IF n.out = "TypeError" THEN [out |-> "TypeError", val |-> <<>>]
        ELSE IF n.out = "None" THEN [out |-> "AttributeError", val |-> <<>>]
        ELSE [out |-> "value", val |-> NodeAt(root, n.path)[1]]

\* the tree with the val and key of the node at a path replaced
RECURSIVE WithNode(_, _, _, _)
WithNode(node, path, val, key) ==
    IF path = <<>> THEN <<val, key, node[3], node[4]>>
    ELSE IF Head(path) = "L"
         THEN <<node[1], node[2], WithNode(node[3], Tail(path), val, key), node[4]>>
    ELSE <<node[1], node[2], node[3], WithNode(node[4], Tail(path), val, key)>>


-----------------------------------------------------------------------------
(***************************************************************************)
(* Synthesizers (catalog/synthesis.py) as the tree uses them.  The solver  *)
(* may return any model of the constraints, so bounded synthesis is the    *)
(* set of values it can return; an empty set is the unsatisfiable case.    *)
(***************************************************************************)
\* StrSynthesizer.DEFAULT_ASCII_CHARS: the character codes 0x20 .. 0x7E
DEFAULT_ASCII_CHARS == 32..126

MinChar == 32
MaxChar == 126

\* the while loops of _lt_constraint and _gt_constraint: the first offset at
\* or after the given one whose character is not ch, or the length of value
RECURSIVE SkipChars(_, _, _)
SkipChars(value, offset, ch) ==
    IF offset < Len(value) /\ value[offset + 1] = ch
    THEN SkipChars(value, offset + 1, ch)
    ELSE offset

\* the template of _lt_constraint admitting the character of the bound itself
InLtTemplate_OrEqual(s, value, offset) ==
    LET o == SkipChars(value, offset, MinChar)
    IN  IF o >= Len(value)
        THEN s = SubSeq(value, 1, Len(value) - 1)
        ELSE /\ Len(s) >= o + 1
             /\ SubSeq(s, 1, o) = SubSeq(value, 1, o)
             /\ s[o + 1] <= value[o + 1]

\* s matches the template StrSynthesizer._lt_constraint(value, offset=offset)
InLtTemplate(s, value, offset) ==
    LET o == SkipChars(value, offset, MinChar)
    IN  IF o >= Len(value)
        THEN s = SubSeq(value, 1, Len(value) - 1)
        ELSE /\ Len(s) >= o + 1
             /\ SubSeq(s, 1, o) = SubSeq(value, 1, o)
             /\ s[o + 1] < value[o + 1]

\* the template of _gt_constraint admitting the character of the bound itself
InGtTemplate_OrEqual(s, value, offset) ==
    IF Len(value) = 0 THEN Len(s) >= 1
    ELSE LET o == SkipChars(value, offset, MaxChar)
         IN  IF o >= Len(value)
             THEN Len(s) > Len(value) /\ SubSeq(s, 1, Len(value)) = value
             ELSE /\ Len(s) >= o + 1
                  /\ SubSeq(s, 1, o) = SubSeq(value, 1, o)
                  /\ s[o + 1] >= value[o + 1]

\* s matches the template StrSynthesizer._gt_constraint(value, offset=offset)
InGtTemplate(s, value, offset) ==
    IF Len(value) = 0 THEN Len(s) >= 1
    ELSE LET o == SkipChars(value, offset, MaxChar)
         IN  IF o >= Len(value)
             THEN Len(s) > Len(value) /\ SubSeq(s, 1, Len(value)) = value
             ELSE /\ Len(s) >= o + 1
                  /\ SubSeq(s, 1, o) = SubSeq(value, 1, o)
                  /\ s[o + 1] > value[o + 1]

\* the offset StrSynthesizer.bounded_constraints passes to both templates:
\* the length of the common prefix of the bounds
RECURSIVE CommonPrefix(_, _, _)
CommonPrefix(upper_bound, lower_bound, pos) ==
    IF /\ pos < Len(upper_bound)
       /\ pos < Len(lower_bound)
       /\ upper_bound[pos + 1] = lower_bound[pos + 1]
    THEN CommonPrefix(upper_bound, lower_bound, pos + 1)
    ELSE pos

\* strings that decide whether the two templates have a common member: each
\* template's fixed prefix followed by one character, and the shortened bound
StrCandidates(upper_bound, lower_bound, pos) ==
    LET prefixes == { SubSeq(upper_bound, 1, SkipChars(upper_bound, pos, MinChar)),
                      SubSeq(lower_bound, 1, SkipChars(lower_bound, pos, MaxChar)),
                      lower_bound }
    IN  { SubSeq(upper_bound, 1, Len(upper_bound) - 1) }
            \cup { Append(p, c) : p \in prefixes, c \in DEFAULT_ASCII_CHARS }

\* StrSynthesizer.bounded_constraints(upper_bound, lower_bound) and .value:
\* the strings the solver can return (among the candidates)
StrModels(upper_bound, lower_bound) ==
    LET pos == CommonPrefix(upper_bound, lower_bound, 0)
    IN  { s \in StrCandidates(upper_bound, lower_bound, pos) :
            /\ upper_bound # <<>>
            /\ InLtTemplate(s, upper_bound, pos)
            /\ InGtTemplate(s, lower_bound, pos) }

\* Synthesizer.bounded_constraints for IntSynthesizer and .value: the
\* integers the solver can return
SmallIntModels(upper_bound, lower_bound) == (lower_bound + 1)..(upper_bound - 1)

\* Synthesizer.bounded_synthesis(upper_bound=, lower_bound=) of the
\* synthesizer for values of type t: the exception raised, or the set of
\* values that can be returned (empty: None is returned)
BoundedSynthesis(t, upper_bound, lower_bound) ==
    IF ~PyBool(upper_bound) \/ ~PyBool(lower_bound)
        THEN [err |-> "ValueError", values |-> {}]
    ELSE IF ~PyComparable(upper_bound, lower_bound)
        THEN [err |-> "TypeError", values |-> {}]
    ELSE IF ~PyLt(lower_bound, upper_bound)
        THEN [err |-> "ValueError", values |-> {}]
    ELSE IF upper_bound.t # t
        THEN [err |-> "Z3Exception", values |-> {}]
    ELSE IF t = "int"
        THEN [err |-> "", values |->
                { PInt(n, TRUE) : n \in SmallIntModels(upper_bound.v[1], lower_bound.v[1]) }]
    ELSE [err |-> "", values |->
                { PStr(w, TRUE) : w \in StrModels(upper_bound.v, lower_bound.v) }]

\* init_synthesizer(value): the synthesizer for the type of value ("int":
\* IntSynthesizer, "str": StrSynthesizer); any other type is not supported
InitSynthesizer(value) ==
    IF value.t \in {"int", "str"} THEN value.t ELSE "NotImplementedError"

\* IntSynthesizer.simple_synthesis / StrSynthesizer.simple_synthesis
SimpleSynthesis(value) == [value EXCEPT !.synthesized = TRUE]

\* how far from the bound the sampled models of a one-sided integer
\* constraint reach (the solver may return any integer beyond the bound)
SolverSpread == 2

\* the least and the greatest string of a set of models: the sample of the
\* solver's choices that the containers are driven with
StrPick(models) ==
    { w \in models : \A x \in models : ~StrLt(x, w) }
        \cup { w \in models : \A x \in models : ~StrLt(w, x) }

\* Outcome of adding constraints to a fresh solver and reading .value: the
\* exception raised, or the values the solver can return (none: unsatisfiable)
Solved(err, values) == [err |-> err, values |-> values]

\* StrSynthesizer.lt_constraint(value) for a string value, then .value: the
\* exception raised, or the strings the solver can return among the shortened
\* bound and the fixed prefix of the template followed by one character.  The
\* scan raises when the character it stops at is not in the charset.
StrLtConstraint(value) ==
    LET o == SkipChars(value, 0, MinChar)
        candidates == { SubSeq(value, 1, Len(value) - 1) }
            \cup { Append(SubSeq(value, 1, o), c) : c \in DEFAULT_ASCII_CHARS }
    IN  IF value = <<>> THEN Solved("", {})
        ELSE IF o < Len(value) /\ value[o + 1] \notin DEFAULT_ASCII_CHARS
            THEN Solved("ValueError", {})
        ELSE Solved("", { x \in candidates : InLtTemplate(x, value, 0) })

\* StrSynthesizer.gt_constraint(value) for a string value, then .value.  When
\* the scan stops at a character that is not in the charset, _gt_constraint
\* returns the ValueError object as the template, and InRe fails on it.
StrGtConstraint(value) ==
    LET o == SkipChars(value, 0, MaxChar)
        candidates == { Append(p, c) : p \in { SubSeq(value, 1, o), value },
                                       c \in DEFAULT_ASCII_CHARS }
    IN  IF o < Len(value) /\ value[o + 1] \notin DEFAULT_ASCII_CHARS
            THEN Solved("AttributeError", {})
        ELSE Solved("", { x \in candidates : InGtTemplate(x, value, 0) })

\* synthesizer.lt_constraint(upper_bound) for the synthesizer of type t, then
\* to_python(synthesizer.value), the string models sampled by StrPick
LtConstraint(t, upper_bound) ==
    IF t = "int"
    THEN IF upper_bound.t # "int" THEN Solved("Z3Exception", {})
         ELSE Solved("", { PInt(upper_bound.v[1] - d, TRUE) : d \in 1..SolverSpread })
    ELSE IF ~PyBool(upper_bound) THEN Solved("", {})
    ELSE IF upper_bound.t # "str" THEN Solved("TypeError", {})
    ELSE LET r == StrLtConstraint(upper_bound.v)
         IN  Solved(r.err, { PStr(w, TRUE) : w \in StrPick(r.values) })

\* synthesizer.gt_constraint(lower_bound) for the synthesizer of type t
GtConstraint(t, lower_bound) ==
    IF t = "int"
    THEN IF lower_bound.t # "int" THEN Solved("Z3Exception", {})
         ELSE Solved("", { PInt(lower_bound.v[1] + d, TRUE) : d \in 1..SolverSpread })
    ELSE IF lower_bound.t # "str" THEN Solved("TypeError", {})
    ELSE LET r == StrGtConstraint(lower_bound.v)
         IN  Solved(r.err, { PStr(w, TRUE) : w \in StrPick(r.values) })

\* synthesizer.bounded_constraints(upper_bound=, lower_bound=) called directly
\* (no check of the bounds) for the synthesizer of type t
BoundedConstraints(t, upper_bound, lower_bound) ==
    IF t = "int"
    THEN IF upper_bound.t # "int" \/ lower_bound.t # "int"
         THEN Solved("Z3Exception", {})
         ELSE Solved("", { PInt(n, TRUE) :
                 n \in SmallIntModels(upper_bound.v[1], lower_bound.v[1]) })
    ELSE IF upper_bound.t # "str" \/ lower_bound.t # "str"
         THEN Solved("TypeError", {})
    ELSE Solved("", { PStr(w, TRUE) :
                 w \in StrPick(StrModels(upper_bound.v, lower_bound.v)) })

\* BinarySearchTree._min_value(node) and _max_value(node)
MinValue(node) == IF node = Nil THEN PyFalse ELSE CurrVal(MinValueNode(node))
MaxValue(node) == IF node = Nil THEN PyFalse ELSE CurrVal(MaxValueNode(node))

\* BinarySearchTree.synthesize(node) for the node at a path: every outcome
\* (value returned or exception, the tree afterwards, and which of
\* simple_synthesis and bounded_synthesis was called)
BstSynthesize(root, path) ==
    LET node        == NodeAt(root, path)
        upper_bound == MinValue(node[4])
        lower_bound == MaxValue(node[3])
        value       == CurrVal(node)
        written(sv) == IF PyBool(node[2])
                       THEN WithNode(root, path, PyNone, sv)
                       ELSE WithNode(root, path, sv, node[2])
        synthesizer == InitSynthesizer(value)
    IN  IF synthesizer = "NotImplementedError"
            THEN { [out |-> "NotImplementedError", tree |-> root, how |-> ""] }
        ELSE IF ~PyBool(upper_bound) \/ ~PyBool(lower_bound)
            THEN { [out |-> "True", tree |-> written(SimpleSynthesis(value)),
                    how |-> "simple"] }
        ELSE LET b == BoundedSynthesis(synthesizer, upper_bound, lower_bound)
             IN  IF b.err # "" THEN { [out |-> b.err, tree |-> root, how |-> "bounded"] }
                 ELSE IF b.values = {}
                     THEN { [out |-> "False", tree |-> root, how |-> "bounded"] }
                 ELSE { [out |-> "True", tree |-> written(sv), how |-> "bounded"] :
                            sv \in b.values }

-----------------------------------------------------------------------------
(***************************************************************************)
(* The tree as a state machine                                             *)
(***************************************************************************)
MaxNodes == 4
MaxBstSynth == 2

\* keys (values of a value-ordered tree) and payloads offered to the tree
IntKeys == { PInt(n, FALSE) : n \in {0 - 1, 0, 1, 3} }
StrKeys == { PStr(w, FALSE) : w \in {<<>>, <<65>>, <<65, 66>>, <<66>>, <<68>>} }
BstKeys(dom) == IF dom = "int" THEN IntKeys ELSE StrKeys
BstPayloads(dom) ==
    IF dom = "int" THEN { PStr(<<120>>, FALSE), PStr(<<121>>, FALSE) }
    ELSE { PInt(7, FALSE), PInt(8, FALSE) }

\* the record of an operation: its outcome, the path of the node concerned,
\* the value get returned, the synthesis that synthesize called
BST_Ret(op, out, path) ==
    [op |-> op, out |-> out, path |-> path, val |-> PyNone, how |-> ""]

BST_Init ==
    /\ bst_root = Nil
    /\ bst_ret = BST_Ret("init", "None", <<>>)
    /\ bst_dom = "none"
    /\ bst_mode = "none"
    /\ bst_ref = {}
    /\ bst_nsynth = 0

\* tree.insert(val, key) with key = PyNone for tree.insert(val)
BST_Insert(dom, val, key) ==
    /\ UNCHANGED bst_others
    /\ Len(ToOrderedList(bst_root)) < MaxNodes
    /\ bst_root = Nil \/ dom = bst_dom
    /\ LET r     == Insert(bst_root, val, key)
           given == key # PyNone
           k     == IF given THEN key ELSE val
       IN  /\ bst_root' = r.tree
           /\ bst_ret' = BST_Ret("insert", r.out, <<>>)
           /\ bst_dom' = dom
           /\ bst_mode' = IF bst_root # Nil THEN bst_mode
                          ELSE IF given THEN "keyed" ELSE "valued"
           /\ bst_ref' = IF bst_root = Nil THEN {k}
                         ELSE IF given = (bst_mode = "keyed") THEN bst_ref \cup {k}
                         ELSE bst_ref
    /\ UNCHANGED bst_nsynth

\* tree.delete(key_or_val)
BST_Delete(key_or_val) ==
    /\ UNCHANGED bst_others
    /\ bst_root = Nil \/ key_or_val.t = bst_dom
    /\ LET r == BstDelete(bst_root, key_or_val)
       IN  /\ bst_root' = r.tree
           /\ bst_ret' = BST_Ret("delete", r.out, <<>>)
           /\ bst_dom' = IF r.tree = Nil THEN "none" ELSE bst_dom
           /\ bst_mode' = IF r.tree = Nil THEN "none" ELSE bst_mode
           /\ bst_ref' = IF r.tree = Nil THEN {} ELSE bst_ref \ {key_or_val}
    /\ UNCHANGED bst_nsynth

\* tree.find(key_or_val)
BST_Find(key_or_val) ==
    /\ UNCHANGED bst_others
    /\ bst_root = Nil \/ key_or_val.t = bst_dom
    /\ LET r == BstFind(bst_root, key_or_val)
       IN  bst_ret' = BST_Ret("find", r.out, r.path)
    /\ UNCHANGED <<bst_root, bst_dom, bst_mode, bst_ref, bst_nsynth>>

\* tree.get(key)
BST_Get(key) ==
    /\ UNCHANGED bst_others
    /\ bst_root = Nil \/ key.t = bst_dom
    /\ LET r == BstGet(bst_root, key)
       IN  bst_ret' = [BST_Ret("get", r.out, <<>>) EXCEPT
                          !.val = IF r.out = "value" THEN r.val ELSE PyNone]
    /\ UNCHANGED <<bst_root, bst_dom, bst_mode, bst_ref, bst_nsynth>>

\* tree.synthesize(node) for a node of the tree
BST_Synthesize(path) ==
    /\ UNCHANGED bst_others
    /\ bst_nsynth < MaxBstSynth
    /\ path \in Paths(bst_root, <<>>)
    /\ \E r \in BstSynthesize(bst_root, path) :
        /\ bst_root' = r.tree
        /\ bst_ret' = [BST_Ret("synthesize", r.out, path) EXCEPT !.how = r.how]
    /\ bst_nsynth' = bst_nsynth + 1
    /\ UNCHANGED <<bst_dom, bst_mode, bst_ref>>

BstPathsUpTo == UNION { [1..n -> {"L", "R"}] : n \in 0..MaxNodes }

BST_NextBase ==
    \/ \E dom \in {"int", "str"} : \E val \in BstPayloads(dom), key \in BstKeys(dom) :
            BST_Insert(dom, val, key)
    \/ \E dom \in {"int", "str"} : \E val \in BstKeys(dom) :
            BST_Insert(dom, val, PyNone)
    \/ \E key_or_val \in IntKeys \cup StrKeys : BST_Delete(key_or_val)
    \/ \E key_or_val \in IntKeys \cup StrKeys : BST_Find(key_or_val)
    \/ \E key \in IntKeys \cup StrKeys : BST_Get(key)

BST_Next ==
    \/ \E dom \in {"int", "str"} : \E val \in BstPayloads(dom), key \in BstKeys(dom) :
            BST_Insert(dom, val, key)
    \/ \E dom \in {"int", "str"} : \E val \in BstKeys(dom) :
            BST_Insert(dom, val, PyNone)
    \/ \E key_or_val \in IntKeys \cup StrKeys : BST_Delete(key_or_val)
    \/ \E path \in BstPathsUpTo : BST_Synthesize(path)


-----------------------------------------------------------------------------
(***************************************************************************)
(* SynthesizableMinHeap (catalog/db.py) over heapq.  A heap list is a      *)
(* sequence; index k of the code is position k + 1.  The items of one list *)
(* are of one type, so every comparison heapq makes is defined.            *)
(***************************************************************************)
\* heapq._siftdown(heap, startpos, pos), carrying newitem
RECURSIVE SiftDownLoop(_, _, _, _)
SiftDownLoop(heap, startpos, pos, newitem) ==
    IF pos > startpos /\ PyLt(newitem, heap[((pos - 1) \div 2) + 1])
    THEN SiftDownLoop([heap EXCEPT ![pos + 1] = heap[((pos - 1) \div 2) + 1]],
                      startpos, (pos - 1) \div 2, newitem)
    ELSE [heap EXCEPT ![pos + 1] = newitem]

SiftDown(heap, startpos, pos) == SiftDownLoop(heap, startpos, pos, heap[pos + 1])

\* heapq._siftup(heap, pos): the loop that moves the smaller child up, then
\* _siftdown of newitem from the leaf reached
RECURSIVE SiftUpLoop(_, _, _, _)
SiftUpLoop(heap, startpos, pos, newitem) ==
    LET childpos == 2 * pos + 1
        rightpos == childpos + 1
        smaller  == IF rightpos < Len(heap)
                       /\ ~PyLt(heap[childpos + 1], heap[rightpos + 1])
                    THEN rightpos ELSE childpos
    IN  IF childpos < Len(heap)
        THEN SiftUpLoop([heap EXCEPT ![pos + 1] = heap[smaller + 1]],
                        startpos, smaller, newitem)
        ELSE SiftDown([heap EXCEPT ![pos + 1] = newitem], startpos, pos)

SiftUp(heap, pos) == SiftUpLoop(heap, pos, pos, heap[pos + 1])

\* heapq.heapify(x): _siftup(x, i) for i = n // 2 - 1 down to 0
RECURSIVE HeapifyFrom(_, _)
HeapifyFrom(x, i) == IF i < 0 THEN x ELSE HeapifyFrom(SiftUp(x, i), i - 1)

Heapify(x) == HeapifyFrom(x, (Len(x) \div 2) - 1)

\* heapq.heappush(heap, item), called by SynthesizableMinHeap.insert
HeapPush(heap, item) == SiftDown(Append(heap, item), 0, Len(heap))

\* a pop that moves the last item to the root and does not sift it
HeapPop_NoSift(heap) ==
    LET lastelt == heap[Len(heap)]
        rest    == SubSeq(heap, 1, Len(heap) - 1)
    IN  IF rest # <<>>
        THEN [item |-> rest[1], heap |-> [rest EXCEPT ![1] = lastelt]]
        ELSE [item |-> lastelt, heap |-> rest]

\* heapq.heappop(heap) on a list that is not empty, called by
\* SynthesizableMinHeap.pop: the item returned and the list afterwards
HeapPop(heap) ==
    LET lastelt == heap[Len(heap)]
        rest    == SubSeq(heap, 1, Len(heap) - 1)
    IN  IF rest # <<>>
        THEN [item |-> rest[1], heap |-> SiftUp([rest EXCEPT ![1] = lastelt], 0)]
        ELSE [item |-> lastelt, heap |-> rest]

\* SynthesizableMinHeap.peek()
HeapPeek(heap) == IF Len(heap) > 0 THEN heap[1] ELSE PyNone

\* SynthesizableMinHeap.synthesize(index) up to synthesizer.value, for an
\* index in range: the exception raised, or the values the solver can return
HeapSolve(heap, index) ==
    LET value == heap[index + 1]
        synthesizer == InitSynthesizer(value)
        parent_value == IF index >= 1 THEN heap[((index - 1) \div 2) + 1] ELSE PyNone
        left_child_value ==
            IF 2 * index + 1 < Len(heap) THEN heap[2 * index + 2] ELSE PyNone
        right_child_value ==
            IF 2 * index + 2 < Len(heap) THEN heap[2 * index + 3] ELSE PyNone
        min_raises == /\ left_child_value # PyNone
                      /\ right_child_value # PyNone
                      /\ ~PyComparable(right_child_value, left_child_value)
        upper_bound ==
            IF left_child_value = PyNone THEN right_child_value
            ELSE IF right_child_value = PyNone THEN left_child_value
            ELSE IF PyLt(right_child_value, left_child_value) THEN right_child_value
            ELSE left_child_value
        lower_bound == parent_value
        solved ==
            IF PyBool(lower_bound) /\ ~PyBool(upper_bound)
                THEN GtConstraint(synthesizer, lower_bound)
            ELSE IF PyBool(upper_bound) /\ ~PyBool(lower_bound)
                THEN LtConstraint(synthesizer, upper_bound)
            ELSE BoundedConstraints(synthesizer, upper_bound, lower_bound)
    IN  IF synthesizer = "NotImplementedError" THEN Solved("NotImplementedError", {})
        ELSE IF min_raises THEN Solved("TypeError", {})
        ELSE solved

\* SynthesizableMinHeap.synthesize(index): every outcome, as the exception
\* raised ("" when True is returned) and the list afterwards
HeapSynthesize(heap, index) ==
    IF index >= Len(heap) \/ index < 0
    THEN { [err |-> "IndexError", heap |-> heap] }
    ELSE LET solved == HeapSolve(heap, index)
         IN  IF solved.err # "" THEN { [err |-> solved.err, heap |-> heap] }
             ELSE IF solved.values = {}
                 THEN { [err |-> "", heap |-> [heap EXCEPT ![index + 1] = PyNone]] }
             ELSE { [err |-> "", heap |-> [heap EXCEPT ![index + 1] = sv]] :
                         sv \in solved.values }

-----------------------------------------------------------------------------
(***************************************************************************)
(* The heaps as a state machine: heap instances, each constructed without  *)
(* an initial list (its _heap is then the one default list object) or from *)
(* a list of its own.                                                      *)
(***************************************************************************)
MaxHeapLen == 4
MaxHeapSynth == 1

\* the instances: instance 1 alone in SpecHeap and SpecHeapSynth, both of them
\* in SpecHeapShared
HeapInstances == {1, 2}
HeapSingle == {1}
MaxSharedLen == 2

HeapIntItems == { PInt(n, FALSE) : n \in {0, 1, 2} }
HeapStrItems == { PStr(w, FALSE) : w \in {<<>>, <<65>>} }
HeapItems == HeapIntItems \cup HeapStrItems

\* items offered to heaps that are synthesized
HeapSynthItems ==
    { PInt(n, FALSE) : n \in {0 - 1, 0, 1, 3} }
        \cup { PStr(w, FALSE) : w \in {<<>>, <<65>>, <<67>>} }

\* lists passed as initial to the constructor
HeapInitials ==
    { <<PInt(2, FALSE), PInt(1, FALSE)>>,
      <<PInt(2, FALSE), PInt(1, FALSE), PInt(0, FALSE)>>,
      <<PStr(<<65>>, FALSE), PStr(<<>>, FALSE)>> }

\* instance._heap
HeapOf(h) == IF heap_ref[h] = "default" THEN heap_default ELSE heap_own[h]

Heap_Ret(op, h, err, item) == [op |-> op, h |-> h, err |-> err, item |-> item]

Heap_Init ==
    /\ heap_default = <<>>
    /\ heap_own = [h \in HeapInstances |-> <<>>]
    /\ heap_ref = [h \in HeapInstances |-> "none"]
    /\ heap_ret = Heap_Ret("init", 0, "", PyNone)
    /\ heap_nsynth = 0

\* the lists after instance h's _heap has become new_heap
Heap_Store(h, new_heap) ==
    IF heap_ref[h] = "default"
    THEN heap_default' = new_heap /\ UNCHANGED heap_own
    ELSE heap_own' = [heap_own EXCEPT ![h] = new_heap] /\ UNCHANGED heap_default

\* h = SynthesizableMinHeap()
Heap_New(h) ==
    /\ UNCHANGED heap_others
    /\ UNCHANGED heap_nsynth
    /\ heap_ref' = [heap_ref EXCEPT ![h] = "default"]
    /\ heap_default' = Heapify(heap_default)
    /\ heap_own' = [heap_own EXCEPT ![h] = <<>>]
    /\ heap_ret' = Heap_Ret("new", h, "", PyNone)

\* h = SynthesizableMinHeap(initial)
Heap_NewFrom(h, initial) ==
    /\ UNCHANGED heap_others
    /\ UNCHANGED heap_nsynth
    /\ heap_ref' = [heap_ref EXCEPT ![h] = "own"]
    /\ heap_own' = [heap_own EXCEPT ![h] = Heapify(initial)]
    /\ heap_ret' = Heap_Ret("new", h, "", PyNone)
    /\ UNCHANGED heap_default

\* h.insert(item)
Heap_Insert(h, item) ==
    /\ UNCHANGED heap_others
    /\ UNCHANGED heap_nsynth
    /\ heap_ref[h] # "none"
    /\ Len(HeapOf(h)) < MaxHeapLen
    /\ \A i \in 1..Len(HeapOf(h)) : item.t = HeapOf(h)[i].t
    /\ Heap_Store(h, HeapPush(HeapOf(h), item))
    /\ heap_ret' = Heap_Ret("insert", h, "", PyNone)
    /\ UNCHANGED heap_ref

\* h.pop()
Heap_Pop(h) ==
    /\ UNCHANGED heap_others
    /\ UNCHANGED heap_nsynth
    /\ heap_ref[h] # "none"
    /\ \A i \in 1..Len(HeapOf(h)) : HeapOf(h)[i].t = HeapOf(h)[1].t
    /\ IF HeapOf(h) = <<>>
       THEN /\ heap_ret' = Heap_Ret("pop", h, "IndexError", PyNone)
            /\ UNCHANGED <<heap_default, heap_own>>
       ELSE /\ Heap_Store(h, HeapPop(HeapOf(h)).heap)
            /\ heap_ret' = Heap_Ret("pop", h, "", HeapPop(HeapOf(h)).item)
    /\ UNCHANGED heap_ref

\* h.peek()
Heap_Peek(h) ==
    /\ UNCHANGED heap_others
    /\ UNCHANGED heap_nsynth
    /\ heap_ref[h] # "none"
    /\ heap_ret' = Heap_Ret("peek", h, "", HeapPeek(HeapOf(h)))
    /\ UNCHANGED <<heap_default, heap_own, heap_ref>>

\* h.synthesize(index)
Heap_Synthesize(h, index) ==
    /\ UNCHANGED heap_others
    /\ heap_ref[h] # "none"
    /\ heap_nsynth < MaxHeapSynth
    /\ heap_nsynth' = heap_nsynth + 1
    /\ \E r \in HeapSynthesize(HeapOf(h), index) :
        /\ IF r.err = "" THEN Heap_Store(h, r.heap)
           ELSE UNCHANGED <<heap_default, heap_own>>
        /\ heap_ret' = [op |-> "synthesize", h |-> h, err |-> r.err,
                        item |-> PInt(index, FALSE)]
    /\ UNCHANGED heap_ref

Heap_NextBase ==
    \/ \E h \in HeapSingle : Heap_New(h)
    \/ \E h \in HeapSingle : \E initial \in HeapInitials : Heap_NewFrom(h, initial)
    \/ \E h \in HeapSingle : \E item \in HeapItems : Heap_Insert(h, item)
    \/ \E h \in HeapSingle : Heap_Pop(h)
    \/ \E h \in HeapSingle : Heap_Peek(h)


Heap_Next ==
    \/ \E h \in HeapSingle : Heap_New(h)
    \/ \E h \in HeapSingle : \E item \in HeapSynthItems : Heap_Insert(h, item)
    \/ \E h \in HeapSingle : Heap_Pop(h)
    \/ \E h \in HeapSingle : \E index \in (0 - 1)..MaxHeapLen :
            Heap_Synthesize(h, index)

\* two instances, constructed with or without an initial list, holding short
\* lists of integers
Heap_NextShared ==
    \/ \E h \in HeapInstances : Heap_New(h)
    \/ \E h \in HeapInstances : Heap_NewFrom(h, <<PInt(2, FALSE), PInt(1, FALSE)>>)
    \/ \E h \in HeapInstances : \E item \in {PInt(1, FALSE), PInt(2, FALSE)} :
            Heap_Insert(h, item) /\ Len(HeapOf(h)) < MaxSharedLen
    \/ \E h \in HeapInstances : Heap_Pop(h)

-----------------------------------------------------------------------------
(***************************************************************************)
(* SynthesizableSortedList (catalog/db.py) over sortedcontainers.SortedList.*)
(* The list is short enough to be one sublist, so it is one sequence;      *)
(* index k of the code is position k + 1.                                  *)
(***************************************************************************)
\* SortedList.add(value): value goes after the elements that are not greater
SortedAdd(seq, value) ==
    LET n == Cardinality({ i \in 1..Len(seq) : ~PyLt(value, seq[i]) })
    IN  SubSeq(seq, 1, n) \o <<value>> \o SubSeq(seq, n + 1, Len(seq))

\* SynthesizableSortedList.synthesis(index) up to synthesizer.value, for an
\* index in range: the exception raised, or the values the solver can return
SortedSolve(seq, index) ==
    LET synthesizer == InitSynthesizer(seq[index + 1])
    IN  IF synthesizer = "NotImplementedError" THEN Solved("NotImplementedError", {})
        ELSE IF index = 0
            THEN IF Len(seq) < 2 THEN Solved("IndexError", {})
                 ELSE LtConstraint(synthesizer, seq[index + 2])
        ELSE IF index = Len(seq) - 1
            THEN GtConstraint(synthesizer, seq[index])
        ELSE BoundedConstraints(synthesizer, seq[index + 2], seq[index])

\* SynthesizableSortedList.synthesis(index): every outcome, as the exception
\* raised ("" when True is returned) and the list afterwards
SortedSynthesis(seq, index) ==
    IF index >= Len(seq) \/ index < 0
    THEN { [err |-> "IndexError", seq |-> seq] }
    ELSE LET solved == SortedSolve(seq, index)
         IN  IF solved.err # "" THEN { [err |-> solved.err, seq |-> seq] }
             ELSE IF solved.values = {}
                 THEN { [err |-> "", seq |-> [seq EXCEPT ![index + 1] = PyNone]] }
             ELSE { [err |-> "", seq |-> [seq EXCEPT ![index + 1] = sv]] :
                         sv \in solved.values }

MaxListLen == 4
MaxListSynth == 1

\* values offered to the sorted list
SortedItems ==
    { PInt(n, FALSE) : n \in {0, 1, 2, 4} }
        \cup { PStr(w, FALSE) : w \in {<<>>, <<32>>, <<65>>, <<67>>} }

SL_Init ==
    /\ sl_list = <<>>
    /\ sl_ret = [op |-> "init", err |-> "", index |-> 0]
    /\ sl_nsynth = 0

\* sl.add(value), the elements being of the type of value
SL_Add(value) ==
    /\ UNCHANGED sl_others
    /\ Len(sl_list) < MaxListLen
    /\ \A i \in 1..Len(sl_list) : sl_list[i].t = value.t
    /\ sl_list' = SortedAdd(sl_list, value)
    /\ sl_ret' = [op |-> "add", err |-> "", index |-> 0]
    /\ UNCHANGED sl_nsynth

\* sl.synthesis(index)
SL_Synthesis(index) ==
    /\ UNCHANGED sl_others
    /\ sl_nsynth < MaxListSynth
    /\ sl_nsynth' = sl_nsynth + 1
    /\ \E r \in SortedSynthesis(sl_list, index) :
        /\ sl_list' = r.seq
        /\ sl_ret' = [op |-> "synthesis", err |-> r.err, index |-> index]

SL_Next ==
    \/ \E value \in SortedItems : SL_Add(value)
    \/ \E index \in (0 - 1)..MaxListLen : SL_Synthesis(index)

-----------------------------------------------------------------------------
(***************************************************************************)
(* SynthesizableSortedList with more than one sublist.  SortedList keeps   *)
(* its elements in _lists, a list of sublists, and the last element of     *)
(* each sublist in _maxes; a sublist longer than twice the load is split.  *)
(* Sublist pos of the code is segment pos + 1, element idx is idx + 1.     *)
(***************************************************************************)
\* the load of the list: a sublist holds at most twice as many elements
SegmentLoad == 1
MaxSegItems == 4

\* bisect_right(a, x): the binary search of the bisect module
RECURSIVE BisectRight(_, _, _, _)
BisectRight(a, x, lo, hi) ==
    IF lo < hi
    THEN LET mid == (lo + hi) \div 2
         IN  IF PyLt(x, a[mid + 1]) THEN BisectRight(a, x, lo, mid)
             ELSE BisectRight(a, x, mid + 1, hi)
    ELSE lo

InsertAt(seq, k, x) == SubSeq(seq, 1, k) \o <<x>> \o SubSeq(seq, k + 1, Len(seq))

\* SortedList._expand(pos): split sublist pos when it is longer than twice
\* the load
SegExpand(lists, maxes, pos) ==
    LET sub == lists[pos + 1]
    IN  IF Len(sub) > 2 * SegmentLoad
        THEN LET keep == SubSeq(sub, 1, SegmentLoad)
                 half == SubSeq(sub, SegmentLoad + 1, Len(sub))
             IN  [lists |-> InsertAt([lists EXCEPT ![pos + 1] = keep], pos + 1, half),
                  maxes |-> InsertAt([maxes EXCEPT ![pos + 1] = keep[Len(keep)]],
                                     pos + 1, half[Len(half)])]
        ELSE [lists |-> lists, maxes |-> maxes]

\* SortedList.add(value), inherited
SegAdd(lists, maxes, value) ==
    IF Len(maxes) > 0
    THEN LET pos == BisectRight(maxes, value, 0, Len(maxes))
         IN  IF pos = Len(maxes)
             THEN SegExpand([lists EXCEPT ![pos] = Append(@, value)],
                            [maxes EXCEPT ![pos] = value], pos - 1)
             ELSE LET sub == lists[pos + 1]
                      k == BisectRight(sub, value, 0, Len(sub))
                  IN  SegExpand([lists EXCEPT ![pos + 1] = InsertAt(sub, k, value)],
                                maxes, pos)
    ELSE [lists |-> <<<<value>>>>, maxes |-> <<value>>]

RECURSIVE SegLen(_)
SegLen(lists) ==
    IF lists = <<>> THEN 0 ELSE Len(Head(lists)) + SegLen(Tail(lists))

\* SortedList._pos(idx): the sublist and the place in it of element idx, a
\* negative idx counting from the end; "IndexError" outside the list
SegPos(lists, index) ==
    LET idx == IF index < 0 THEN index + SegLen(lists) ELSE index
        Before(p) == SegLen(SubSeq(lists, 1, p))
    IN  IF idx < 0 \/ idx >= SegLen(lists)
        THEN [err |-> "IndexError", pos |-> 0, idx |-> 0]
        ELSE LET pos == CHOOSE p \in 0..(Len(lists) - 1) :
                            Before(p) <= idx /\ idx < Before(p + 1)
             IN  [err |-> "", pos |-> pos, idx |-> idx - Before(pos)]

SegSetItem_MaxesKept(lists, maxes, index, value) ==
    LET at == SegPos(lists, index)
    IN  [lists |-> [lists EXCEPT ![at.pos + 1][at.idx + 1] = value],
         maxes |-> maxes]

\* SynthesizableSortedList.__setitem__(index, value), index in the list
SegSetItem(lists, maxes, index, value) ==
    LET at == SegPos(lists, index)
    IN  [lists |-> [lists EXCEPT ![at.pos + 1][at.idx + 1] = value],
         maxes |-> IF at.idx = Len(lists[at.pos + 1]) - 1
                   THEN [maxes EXCEPT ![at.pos + 1] = value]
                   ELSE maxes]

\* values offered to the list
SegItems == { PInt(n, FALSE) : n \in 1..3 }

SG_Init ==
    /\ sg_lists = <<>>
    /\ sg_maxes = <<>>
    /\ sg_ret = [op |-> "init", err |-> "", pos |-> 0, idx |-> 0]

\* sl.add(value)
SG_Add(value) ==
    /\ UNCHANGED sg_others
    /\ SegLen(sg_lists) < MaxSegItems
    /\ LET r == SegAdd(sg_lists, sg_maxes, value)
       IN  sg_lists' = r.lists /\ sg_maxes' = r.maxes
    /\ sg_ret' = [op |-> "add", err |-> "", pos |-> 0, idx |-> 0]

\* sl[index] = value
SG_SetItem(index, value) ==
    /\ UNCHANGED sg_others
    /\ LET at == SegPos(sg_lists, index)
       IN  IF at.err # ""
           THEN /\ UNCHANGED <<sg_lists, sg_maxes>>
                /\ sg_ret' = [op |-> "setitem", err |-> "IndexError", pos |-> 0, idx |-> 0]
           ELSE LET r == SegSetItem(sg_lists, sg_maxes, index, value)
                IN  /\ sg_lists' = r.lists
                    /\ sg_maxes' = r.maxes
                    /\ sg_ret' = [op |-> "setitem", err |-> "", pos |-> at.pos, idx |-> at.idx]

SG_Next ==
    \/ \E value \in SegItems : SG_Add(value)
    \/ \E index \in (0 - MaxSegItems - 1)..MaxSegItems, value \in SegItems :
            SG_SetItem(index, value)

-----------------------------------------------------------------------------
(***************************************************************************)
(* SynthesizableHashTable (catalog/db.py).  Bucket number b of the code is *)
(* position b + 1 of ht_table.  The hash of the Untrusted types is a       *)
(* deterministic function of the raw value: the remainder modulo           *)
(* HashModulus for an integer, and a positional remainder over the         *)
(* character codes for a string, to which a leading NULL adds nothing.     *)
(***************************************************************************)
DEFAULT_NUM_BUCKETS == 10

HashModulus == 13

RECURSIVE CharsHash(_)
CharsHash(chars) ==
    IF chars = <<>> THEN 0
    ELSE (CharsHash(SubSeq(chars, 1, Len(chars) - 1)) * 31 + chars[Len(chars)])
            % HashModulus

\* UntrustedInt.custom_hash(raw) / UntrustedStr.custom_hash(raw)
CustomHash(t, raw) == IF t = "int" THEN raw % HashModulus ELSE CharsHash(raw)

\* key.__hash__()
KeyHash(key) == CustomHash(key.t, IF key.t = "int" THEN key.v[1] ELSE key.v)

\* length of the character array of StrSynthesizer.eq_constraint
MaxCharLength == 2

\* the character codes the sampled models are made of: NULL, a line feed
\* (not printable) and printable ones
HashChars == {0, 10, 65, 66}

\* the integers the sampled models are taken from
HashInts == {0, 10, 13}

\* eq_constraint without the constraint on each code
CharArrays_AnyCode ==
    { a \in [1..MaxCharLength -> HashChars] :
        \A i \in 1..(MaxCharLength - 1) : a[i + 1] = 0 => a[i] = 0 }

\* the arrays admitted by StrSynthesizer.eq_constraint before the hash
\* constraint: each code is NULL or printable, and a NULL is preceded by
\* NULLs only
CharArrays ==
    { a \in [1..MaxCharLength -> HashChars] :
        /\ \A i \in 1..MaxCharLength : a[i] = 0 \/ a[i] \in DEFAULT_ASCII_CHARS
        /\ \A i \in 1..(MaxCharLength - 1) : a[i + 1] = 0 => a[i] = 0 }

\* StrSynthesizer.to_python(list): the string of the codes that are not NULL
ToPythonChars(a) == PStr(SelectSeq(a, LAMBDA c : c > 0), TRUE)

\* the solver ignoring the hash constraint
EqConstraint_AnyValue(t, hash) ==
    IF t = "int"
    THEN Solved("", { PInt(n, TRUE) : n \in HashInts })
    ELSE Solved("", { ToPythonChars(a) : a \in CharArrays })

\* synthesizer.eq_constraint(custom_hash, hash) followed by
\* to_python(synthesizer.value), for the synthesizer of type t
EqConstraint(t, hash) ==
    IF t = "int"
    THEN Solved("", { PInt(n, TRUE) : n \in { c \in HashInts : CustomHash("int", c) = hash } })
    ELSE Solved("", { ToPythonChars(a) : a \in { c \in CharArrays : CustomHash("str", c) = hash } })

\* hash_key = key.__hash__() % len(self._hash_table)
BucketOf(table, key) == (KeyHash(key) % Len(table)) + 1

\* the scan of a bucket accepting the first entry whose key has the hash of key
ScanBucket_SameHash(bucket, key) ==
    LET hits == { i \in 1..Len(bucket) : KeyHash(bucket[i][1]) = KeyHash(key) }
    IN  IF hits = {} THEN 0 ELSE CHOOSE i \in hits : \A j \in hits : i <= j

\* for i, kv in enumerate(bucket): if key == k: the first position whose key
\* equals key, 0 when there is none
ScanBucket(bucket, key) ==
    LET hits == { i \in 1..Len(bucket) : PyEq(key, bucket[i][1]) }
    IN  IF hits = {} THEN 0 ELSE CHOOSE i \in hits : \A j \in hits : i <= j

\* set that appends without looking for the key
HashSet_Append(table, key, value) ==
    IF key.t \notin {"int", "str"} THEN [err |-> "KeyError", table |-> table]
    ELSE LET b == BucketOf(table, key)
         IN  [err |-> "", table |-> [table EXCEPT ![b] = Append(@, <<key, value>>)]]

\* SynthesizableHashTable.__setitem__(key, value)
HashSet(table, key, value) ==
    IF key.t \notin {"int", "str"} THEN [err |-> "KeyError", table |-> table]
    ELSE LET b == BucketOf(table, key)
             i == ScanBucket(table[b], key)
         IN  [err |-> "",
              table |-> IF i > 0 THEN [table EXCEPT ![b][i] = <<key, value>>]
                        ELSE [table EXCEPT ![b] = Append(@, <<key, value>>)]]

\* SynthesizableHashTable.__getitem__(key)
HashGet(table, key) ==
    LET b == BucketOf(table, key)
        i == ScanBucket(table[b], key)
    IN  IF i > 0 THEN [err |-> "", value |-> table[b][i][2]]
        ELSE [err |-> "KeyError", value |-> PyNone]

\* SynthesizableHashTable.__delitem__(key)
HashDelete(table, key) ==
    LET b == BucketOf(table, key)
        i == ScanBucket(table[b], key)
    IN  IF i > 0
        THEN [table EXCEPT ![b] = SubSeq(@, 1, i - 1) \o SubSeq(@, i + 1, Len(@))]
        ELSE table

RECURSIVE SumLen(_)
SumLen(lists) == IF lists = <<>> THEN 0 ELSE Len(Head(lists)) + SumLen(Tail(lists))

\* SynthesizableHashTable.__len__()
HashLen(table) == SumLen(table)

\* SynthesizableHashTable.synthesis(key): every outcome, as the value returned
\* ("" with the exception raised), and the table afterwards
HashSynthesis(table, key) ==
    LET b == BucketOf(table, key)
        i == ScanBucket(table[b], key)
        solved == IF key.t \in {"int", "str"} THEN EqConstraint(key.t, KeyHash(key))
                  ELSE Solved("NotImplementedError", {})
    IN  IF i = 0 THEN { [out |-> "False", err |-> "", table |-> table] }
        ELSE IF solved.err # "" THEN { [out |-> "", err |-> solved.err, table |-> table] }
        ELSE IF solved.values = {}
            THEN { [out |-> "True", err |-> "",
                    table |-> [table EXCEPT ![b][i] = <<PyNone, @[2]>>]] }
        ELSE { [out |-> "True", err |-> "",
                table |-> [table EXCEPT ![b][i] = <<synthesized_key, @[2]>>]] :
                    synthesized_key \in solved.values }

MaxEntries == 2

\* keys and values offered to the hash table
HashKeys ==
    { PInt(n, FALSE) : n \in {0, 10} }
        \cup { PStr(w, FALSE) : w \in {<<>>, <<65>>} }
HashValues == { PInt(n, FALSE) : n \in {1, 2} }

HT_Ret(op, key, out, err, value) ==
    [op |-> op, key |-> key, out |-> out, err |-> err, value |-> value]

HT_Init ==
    /\ ht_table = [b \in 1..DEFAULT_NUM_BUCKETS |-> <<>>]
    /\ ht_ret = HT_Ret("init", PyNone, "", "", PyNone)
    /\ ht_ref = {}

\* ht[key] = value
HT_Set(key, value) ==
    /\ UNCHANGED ht_others
    /\ LET r == HashSet(ht_table, key, value)
       IN  /\ HashLen(r.table) <= MaxEntries
           /\ ht_table' = r.table
           /\ ht_ret' = HT_Ret("set", PyNone, "", r.err, PyNone)
           /\ ht_ref' = IF r.err # "" THEN ht_ref
                        ELSE { p \in ht_ref : p[1] # key } \cup {<<key, value>>}

\* del ht[key]
HT_Delete(key) ==
    /\ UNCHANGED ht_others
    /\ ht_table' = HashDelete(ht_table, key)
    /\ ht_ret' = HT_Ret("delete", PyNone, "", "", PyNone)
    /\ ht_ref' = { p \in ht_ref : p[1] # key }

\* ht[key]
HT_Get(key) ==
    /\ UNCHANGED ht_others
    /\ LET r == HashGet(ht_table, key)
       IN  ht_ret' = HT_Ret("get", key, "", r.err, r.value)
    /\ UNCHANGED <<ht_table, ht_ref>>

\* ht.synthesis(key)
HT_Synthesis(key) ==
    /\ UNCHANGED ht_others
    /\ \E r \in HashSynthesis(ht_table, key) :
        /\ ht_table' = r.table
        /\ ht_ret' = HT_Ret("synthesis", key, r.out, r.err, PyNone)
        /\ ht_ref' = IF r.out = "True" THEN { p \in ht_ref : p[1] # key } ELSE ht_ref

HT_NextBase ==
    \/ \E key \in HashKeys \cup {PyNone}, value \in HashValues : HT_Set(key, value)
    \/ \E key \in HashKeys : HT_Delete(key)
    \/ \E key \in HashKeys : HT_Get(key)

HT_Next ==
    \/ \E key \in HashKeys, value \in HashValues : HT_Set(key, value)
    \/ \E key \in HashKeys : HT_Delete(key)
    \/ \E key \in HashKeys : HT_Synthesis(key)

-----------------------------------------------------------------------------
(***************************************************************************)
(* The synthesizers called directly (catalog/synthesis.py): an             *)
(* IntSynthesizer or StrSynthesizer whose solver holds no constraint, one  *)
(* call of bounded_synthesis, or of lt_constraint or gt_constraint         *)
(* followed by to_python(synthesizer.value), and reset_constraints before  *)
(* the next call.  A bound that is not supplied is None.                   *)
(***************************************************************************)
\* bounds offered to bounded_synthesis
SynIntBounds == { PInt(n, FALSE) : n \in {0 - 2, 0, 1, 2, 4} }
SynStrBounds ==
    { PStr(w, FALSE) : w \in {<<>>, <<32>>, <<65>>, <<65, 32>>, <<65, 66>>,
                              <<66>>, <<66, 126>>, <<126>>} }
SynBounds == SynIntBounds \cup SynStrBounds \cup {PyNone}

\* further string bounds offered to lt_constraint and gt_constraint: runs of
\* the least and of the greatest character, and strings with a line feed,
\* which the charset does not have
SynOneSidedBounds ==
    SynBounds \cup
    { PStr(w, FALSE) : w \in {<<32, 32>>, <<32, 65>>, <<126, 126>>, <<126, 65>>,
                              <<10>>, <<65, 10>>, <<32, 10>>, <<126, 10>>} }

Syn_Ret(op, t, upper_bound, lower_bound, err, value) ==
    [op |-> op, t |-> t, upper_bound |-> upper_bound, lower_bound |-> lower_bound,
     err |-> err, value |-> value, chars |-> <<>>]

Syn_Init == syn_ret = Syn_Ret("init", "none", PyNone, PyNone, "", PyNone)

\* IntSynthesizer().bounded_synthesis(upper_bound=, lower_bound=) for t = "int",
\* StrSynthesizer().bounded_synthesis(upper_bound=, lower_bound=) for t = "str"
Syn_BoundedSynthesis(t, upper_bound, lower_bound) ==
    /\ UNCHANGED syn_others
    /\ syn_ret.op \in {"init", "reset_constraints"}
    /\ LET r == BoundedSynthesis(t, upper_bound, lower_bound)
       IN  \E value \in (IF r.err # "" \/ r.values = {} THEN {PyNone} ELSE r.values) :
            syn_ret' = Syn_Ret("bounded_synthesis", t, upper_bound, lower_bound,
                               r.err, value)

\* the outcomes of a call that ends with to_python(synthesizer.value), solved
\* being what the solver can return
Syn_Values(solved, values) ==
    IF solved.err # "" \/ values = {} THEN {PyNone} ELSE values

\* synthesizer.lt_constraint(value); to_python(synthesizer.value)
Syn_LtConstraint(t, value) ==
    /\ UNCHANGED syn_others
    /\ syn_ret.op \in {"init", "reset_constraints"}
    /\ LET r == IF t = "str" /\ value.t = "str"
                THEN LET q == StrLtConstraint(value.v)
                     IN  Solved(q.err, { PStr(w, TRUE) : w \in q.values })
                ELSE LtConstraint(t, value)
       IN  \E v \in Syn_Values(r, r.values) :
            syn_ret' = Syn_Ret("lt_constraint", t, value, PyNone, r.err, v)

\* synthesizer.gt_constraint(value); to_python(synthesizer.value)
Syn_GtConstraint(t, value) ==
    /\ UNCHANGED syn_others
    /\ syn_ret.op \in {"init", "reset_constraints"}
    /\ LET r == IF t = "str" /\ value.t = "str"
                THEN LET q == StrGtConstraint(value.v)
                     IN  Solved(q.err, { PStr(w, TRUE) : w \in q.values })
                ELSE GtConstraint(t, value)
       IN  \E v \in Syn_Values(r, r.values) :
            syn_ret' = Syn_Ret("gt_constraint", t, PyNone, value, r.err, v)

\* keys whose hash is offered to eq_constraint
SynHashKeys == { PStr(w, FALSE) : w \in {<<>>, <<10>>, <<65>>, <<66, 65>>} }

\* StrSynthesizer().eq_constraint(UntrustedStr.custom_hash, key.__hash__());
\* to_python(synthesizer.value): chars is the list of codes that .value returns
Syn_EqConstraint(key) ==
    /\ UNCHANGED syn_others
    /\ syn_ret.op \in {"init", "reset_constraints"}
    /\ LET models == { a \in CharArrays : CustomHash("str", a) = KeyHash(key) }
       IN  IF models = {}
           THEN syn_ret' = Syn_Ret("eq_constraint", "str", PyNone, PyNone, "", PyNone)
           ELSE \E a \in models :
                    syn_ret' = [Syn_Ret("eq_constraint", "str", PyNone, PyNone, "",
                                        ToPythonChars(a)) EXCEPT !.chars = a]

\* BitVec('b', bits): the bytes of a bit vector, most significant first
BitVecBytes == 4

\* an UntrustedInt that may exceed TLC's integers: v is the sign (1 when
\* negative) followed by the digits of the magnitude of i
PLong(i, synthesized) ==
    [t |-> "long", v |-> <<IF i.neg THEN 1 ELSE 0>> \o i.mag, synthesized |-> synthesized]

\* the integer of such a value
LongInt(x) == MkInt(x.v[1] = 1, Tail(x.v))

\* the bit vectors the sampled models are taken from
BitVecPool ==
    { ToBytes(i, BitVecBytes) :
        i \in {PyInt(0), PyInt(1), PyInt(24), PyInt(26), PyInt(42), PyInt(44),
               PyInt(0 - 1), PyInt(0 - 44), INT32_MAX, INT32_MIN} }

\* Synthesizer.lt_constraint(value) / gt_constraint(value) on a BitVec variable
\* and .value: the bit vectors the solver can return.  The bound becomes a bit
\* vector of the width of the variable; < and > on bit vectors are the signed
\* comparisons
BitVecModels(op, value) ==
    LET bound == FromBytes(ToBytes(value, BitVecBytes))
    IN  { bv \in BitVecPool :
            IF op = "lt_constraint" THEN IntLt(FromBytes(bv), bound)
            ELSE IntLt(bound, FromBytes(bv)) }

\* BitVecSynthesizer.to_python(value): as_long() reads the bit vector as an
\* unsigned number
BitVecToPython(bv) ==
    PLong(MkInt(FALSE, [i \in 1..NDigits |->
                    IF i <= NDigits - BitVecBytes THEN 0
                    ELSE bv[i - (NDigits - BitVecBytes)]]), TRUE)

\* bounds offered to the bit-vector synthesizer
BitVecBounds ==
    { PyInt(25), PyInt(43), PyInt(0), PyInt(0 - 43), INT32_MIN, INT32_MAX }

\* BitVecSynthesizer().lt_constraint(value); to_python(synthesizer.value)
Syn_BitVecLtConstraint(value) ==
    /\ UNCHANGED syn_others
    /\ syn_ret.op \in {"init", "reset_constraints"}
    /\ LET models == BitVecModels("lt_constraint", value)
       IN  \E v \in (IF models = {} THEN {PyNone}
                      ELSE { BitVecToPython(bv) : bv \in models }) :
            syn_ret' = Syn_Ret("lt_constraint", "bitvec", PLong(value, FALSE), PyNone, "", v)

\* BitVecSynthesizer().gt_constraint(value); to_python(synthesizer.value)
Syn_BitVecGtConstraint(value) ==
    /\ UNCHANGED syn_others
    /\ syn_ret.op \in {"init", "reset_constraints"}
    /\ LET models == BitVecModels("gt_constraint", value)
       IN  \E v \in (IF models = {} THEN {PyNone}
                      ELSE { BitVecToPython(bv) : bv \in models }) :
            syn_ret' = Syn_Ret("gt_constraint", "bitvec", PyNone, PLong(value, FALSE), "", v)

\* synthesizer.reset_constraints()
Syn_ResetConstraints ==
    /\ UNCHANGED syn_others
    /\ syn_ret.op \notin {"init", "reset_constraints"}
    /\ syn_ret' = Syn_Ret("reset_constraints", "none", PyNone, PyNone, "", PyNone)

Syn_Next ==
    \/ \E t \in {"int", "str"}, upper_bound \in SynBounds, lower_bound \in SynBounds :
            Syn_BoundedSynthesis(t, upper_bound, lower_bound)
    \/ \E t \in {"int", "str"}, value \in SynOneSidedBounds \ {PyNone} :
            Syn_LtConstraint(t, value)
    \/ \E t \in {"int", "str"}, value \in SynOneSidedBounds \ {PyNone} :
            Syn_GtConstraint(t, value)
    \/ \E key \in SynHashKeys : Syn_EqConstraint(key)
    \/ \E value \in BitVecBounds : Syn_BitVecLtConstraint(value)
    \/ \E value \in BitVecBounds : Syn_BitVecGtConstraint(value)
    \/ Syn_ResetConstraints

-----------------------------------------------------------------------------
(***************************************************************************)
(* Specifications                                                          *)
(***************************************************************************)
vars == <<is_vars, bst_vars, heap_vars, sl_vars, ht_vars, syn_vars, cu_vars, sg_vars>>

Init ==
    IS_Init /\ BST_Init /\ Heap_Init /\ SL_Init /\ HT_Init /\ Syn_Init /\ CU_Init
        /\ SG_Init

\* IntSet under add, delete and find
SpecIntSet == Init /\ [][IS_NextBase]_vars

\* SynthesizableIntSet under add, delete, find and synthesize
SpecIntSetSynth == Init /\ [][IS_Next]_vars

\* BinarySearchTree under insert, delete and find
SpecBST == Init /\ [][BST_NextBase]_vars

\* BinarySearchTree under insert, delete and synthesize
SpecBSTSynth == Init /\ [][BST_Next]_vars

\* SynthesizableMinHeap under construction, insert, pop and peek
SpecHeap == Init /\ [][Heap_NextBase]_vars

\* SynthesizableMinHeap under construction, insert, pop and synthesize
SpecHeapSynth == Init /\ [][Heap_Next]_vars

\* two heaps
SpecHeapShared == Init /\ [][Heap_NextShared]_vars

\* SynthesizableSortedList under add and synthesis
SpecSortedList == Init /\ [][SL_Next]_vars

\* SynthesizableHashTable under set, delete and get
SpecHashTable == Init /\ [][HT_NextBase]_vars

\* SynthesizableHashTable under set, delete, get and synthesis
SpecHashTableSynth == Init /\ [][HT_Next]_vars

\* IntSynthesizer and StrSynthesizer under calls of bounded_synthesis,
\* lt_constraint and gt_constraint
SpecSynthesizer == Init /\ [][Syn_Next]_vars

\* an IntSet under add by one thread and find by another
SpecIntSetShared == Init /\ [][CU_Next]_vars

\* SynthesizableSortedList with several sublists under add and __setitem__
SpecSegments == Init /\ [][SG_Next]_vars

-----------------------------------------------------------------------------
(***************************************************************************)
(* Properties of IntSet                                                    *)
(***************************************************************************)
\* the integer decoded from the buffer at position i
Decoded(i) == GetItem(is_contents, i, is_encoding).int

\* C1: after any sequence of add and delete, the integers decoded from the
\* buffer at positions 0..length-1 are strictly ascending.
C1_StrictlyAscending ==
    /\ \A i \in 0..(is_length - 1) : GetItemOk(is_contents, i, is_encoding)
    /\ \A i \in 0..(is_length - 2) : IntLt(Decoded(i), Decoded(i + 1))

C1_Witness ==
    /\ is_ret.op = "delete"
    /\ is_length >= 3
    /\ is_encoding = INTSET_ENC_INT64
    /\ \E i \in 0..(is_length - 1) : Decoded(i).neg

\* C2: find(v) is true exactly when v was added and not deleted since, and is
\* false for every v whose required encoding is wider than the current one.
C2_FindAgreesWithSet ==
    \A v \in IntSetInputs :
        /\ Truthy(Find(is_contents, is_length, is_encoding, v)) <=> v \in is_ref
        /\ MinWidth({v}) > is_encoding
               => ~Truthy(Find(is_contents, is_length, is_encoding, v))

C2_Witness ==
    /\ is_ret.op = "find"
    /\ is_ret.out = "1"
    /\ is_length >= 3
    /\ is_encoding = INTSET_ENC_INT32
    /\ is_ref # {}

\* C3: an add of a value needing a wider encoding sets the encoding to the
\* width the value requires, keeps every previous member's value, and puts the
\* value first when it is negative and last otherwise; the result is ascending.
C3_UpgradeKeepsMembers ==
    \A v \in IntSetInputs :
        MinWidth({v}) > is_encoding =>
            LET r        == AddResult(is_contents, is_length, is_encoding,
                                      UntrustedInt(v, FALSE))
                prepend  == IF IntLt(v, PyInt(0)) THEN 1 ELSE 0
                After(i) == GetItem(r[3], i, r[1]).int
            IN  /\ r[1] = MinWidth({v})
                /\ r[2] = is_length + 1
                /\ Len(r[3]) = r[1] * r[2]
                /\ \A i \in 0..(is_length - 1) : After(i + prepend) = Decoded(i)
                /\ After(IF prepend = 1 THEN 0 ELSE is_length) = v
                /\ \A i \in 0..(r[2] - 2) : IntLt(After(i), After(i + 1))

C3_Witness ==
    /\ is_ret.op = "add"
    /\ is_ret.enc0 = INTSET_ENC_INT32
    /\ is_encoding = INTSET_ENC_INT64
    /\ is_ret.len0 = 2
    /\ is_length = 3
    /\ Decoded(0) = BigNeg

\* C4: across add, delete and synthesize the encoding never decreases, and
\* delete and synthesize leave it exactly as it was.
C4_EncodingNeverDecreases ==
    [][/\ is_encoding' >= is_encoding
       /\ is_ret'.op \in {"delete", "synthesize"} => is_encoding' = is_encoding
      ]_vars

C4_Witness ==
    /\ is_ret.op = "delete"
    /\ is_ret.len0 = is_length + 1
    /\ is_encoding = INTSET_ENC_INT64
    /\ is_length >= 1
    /\ \A i \in 0..(is_length - 1) : MinWidth({Decoded(i)}) = INTSET_ENC_INT16
    /\ is_nsynth > 0

\* C5: the encoding is the smallest of the three widths that fits every value
\* ever passed to add, and every stored integer fits the current encoding.
C5_EncodingIsMinimal ==
    /\ is_encoding = is_need
    /\ \A i \in 0..(is_length - 1) :
          /\ Decoded(i) \in is_ref
          /\ MinWidth({Decoded(i)}) <= is_encoding

C5_Witness ==
    /\ is_encoding = INTSET_ENC_INT32
    /\ is_length >= 2
    /\ is_need = INTSET_ENC_INT32
    /\ \A i \in 0..(is_length - 1) : MinWidth({Decoded(i)}) = INTSET_ENC_INT16

-----------------------------------------------------------------------------
(***************************************************************************)
(* Properties of BinarySearchTree                                          *)
(***************************************************************************)
\* what a node is ordered by in a tree of the given mode: its key in a keyed
\* tree, its value in a value-ordered tree
OrderedBy(entry, mode) == IF mode = "keyed" THEN entry[2] ELSE entry[1]

\* an in-order list is strictly ascending in the ordering of the mode
Ascending(list, mode) ==
    \A i \in 1..(Len(list) - 1) :
        /\ PyComparable(OrderedBy(list[i], mode), OrderedBy(list[i + 1], mode))
        /\ PyLt(OrderedBy(list[i], mode), OrderedBy(list[i + 1], mode))

\* C6: after any sequence of insert and delete, the in-order traversal of the
\* tree is strictly ascending, by key in a keyed tree (the first insert gave a
\* key) and by value in a value-ordered tree.
C6_InOrderAscending == Ascending(ToOrderedList(bst_root), bst_mode)

\* a step in which tree.synthesize(node) returned True
SynthesizeReturnedTrue ==
    /\ bst_nsynth' = bst_nsynth + 1
    /\ bst_ret'.op = "synthesize"
    /\ bst_ret'.out = "True"

\* no node other than the one at the path differs between two trees
OthersUnchanged(before, after, path) ==
    /\ Paths(after, <<>>) = Paths(before, <<>>)
    /\ \A p \in Paths(before, <<>>) \ {path} :
           /\ NodeAt(after, p)[1] = NodeAt(before, p)[1]
           /\ NodeAt(after, p)[2] = NodeAt(before, p)[2]

\* C7: whenever synthesize(node) returns True, the in-order traversal of a
\* tree that was strictly ascending still is, the synthesized flag is set on
\* what the node is ordered by (its key in a keyed tree, its value in a
\* value-ordered tree), and no other node's key, value or flag has changed.
C7_SynthesizeKeepsOrder ==
    [][SynthesizeReturnedTrue =>
        /\ Ascending(ToOrderedList(bst_root), bst_mode)
               => Ascending(ToOrderedList(bst_root'), bst_mode)
        /\ LET node == NodeAt(bst_root', bst_ret'.path)
           IN  OrderedBy(<<node[1], node[2]>>, bst_mode).synthesized
        /\ OthersUnchanged(bst_root, bst_root', bst_ret'.path)]_vars

\* find(k) returns a node, and the node holds k
FindsHolder(root, k, mode) ==
    LET r == BstFind(root, k)
    IN  r.out = "node" /\ PyEq(OrderedBy(NodeAt(root, r.path), mode), k)

\* tree.insert of k in the mode of the tree (with any payload in a keyed tree)
\* leaves the tree as it is
InsertKeeps(root, k, mode, dom) ==
    IF mode = "keyed"
    THEN \A val \in BstPayloads(dom) : Insert(root, val, k).tree = root
    ELSE Insert(root, k, PyNone).tree = root

\* deleting the node at a path that has two children puts the key and value
\* of its in-order successor at that path and removes the successor
SuccessorTakesOver(root, path, mode) ==
    LET node == NodeAt(root, path)
        succ == MinValueNode(node[4])
        list == ToOrderedList(root)
        r    == BstDelete(root, OrderedBy(node, mode))
    IN  /\ r.out = "None"
        /\ NodeAt(r.tree, path)[1] = succ[1]
        /\ NodeAt(r.tree, path)[2] = succ[2]
        /\ Len(ToOrderedList(r.tree)) = Len(list) - 1
        /\ \A i \in 1..Len(list) :
               list[i] # <<node[1], node[2]>>
                   => \E j \in 1..(Len(list) - 1) : ToOrderedList(r.tree)[j] = list[i]

\* C8: find(k) returns a node holding k exactly when k was inserted and not
\* deleted since; inserting a key or value that is present and deleting one
\* that is absent leave the tree unchanged; deleting a node with two children
\* makes that node take over the key and value of its in-order successor.
C8_FindInsertDelete ==
    bst_root # Nil =>
        /\ \A k \in BstKeys(bst_dom) :
               /\ FindsHolder(bst_root, k, bst_mode) <=> k \in bst_ref
               /\ k \in bst_ref => InsertKeeps(bst_root, k, bst_mode, bst_dom)
               /\ k \notin bst_ref => BstDelete(bst_root, k).tree = bst_root
        /\ \A path \in Paths(bst_root, <<>>) :
               NodeAt(bst_root, path)[3] # Nil /\ NodeAt(bst_root, path)[4] # Nil
                   => SuccessorTakesOver(bst_root, path, bst_mode)

\* no key that is false as a condition (0, "") has been given to a keyed tree
NoFalsyKey ==
    bst_mode = "keyed" => HasKey(bst_root) /\ \A k \in bst_ref : PyBool(k)

\* the statements of C6 and C8 hold in every state in which no falsy key has
\* been given to a keyed tree
InOrderAscending_NoFalsyKey == NoFalsyKey => C6_InOrderAscending
FindInsertDelete_NoFalsyKey == NoFalsyKey => C8_FindInsertDelete

\* the in-order list has an entry ordered by k
Holds(list, k, mode) == \E i \in 1..Len(list) : PyEq(OrderedBy(list[i], mode), k)

\* C9: the first insert into an empty tree fixes the mode of the tree; a later
\* insert in the other mode returns False and leaves the tree unchanged; a
\* later insert in the same mode is accepted and the tree is ordered by key
\* (keyed) or by value (value-ordered), for every key including 0 and "".
C9_ModeFixedByFirstInsert ==
    bst_root # Nil =>
        /\ \A val \in BstKeys(bst_dom) :
               LET r == Insert(bst_root, val, PyNone)
               IN  IF bst_mode = "keyed"
                   THEN r.out = "False" /\ r.tree = bst_root
                   ELSE /\ r.out = "None"
                        /\ Holds(ToOrderedList(r.tree), val, bst_mode)
                        /\ Ascending(ToOrderedList(r.tree), bst_mode)
        /\ \A val \in BstPayloads(bst_dom), key \in BstKeys(bst_dom) :
               LET r == Insert(bst_root, val, key)
               IN  IF bst_mode = "valued"
                   THEN r.out = "False" /\ r.tree = bst_root
                   ELSE /\ r.out = "None"
                        /\ Holds(ToOrderedList(r.tree), key, bst_mode)
                        /\ Ascending(ToOrderedList(r.tree), bst_mode)

-----------------------------------------------------------------------------
(***************************************************************************)
(* Properties of SynthesizableMinHeap                                      *)
(***************************************************************************)
\* a <= b on items of one type
PyLe(a, b) == ~PyLt(b, a)

\* heap[k] <= heap[2k+1] and heap[k] <= heap[2k+2] wherever they exist
HeapInvariant(heap) ==
    \A k \in 0..(Len(heap) - 1) :
        /\ 2 * k + 1 < Len(heap) => PyLe(heap[k + 1], heap[2 * k + 2])
        /\ 2 * k + 2 < Len(heap) => PyLe(heap[k + 1], heap[2 * k + 3])

\* the number of positions of a list that hold x
Occurrences(heap, x) == Cardinality({ i \in 1..Len(heap) : heap[i] = x })

\* item is in the list and no element of the list is smaller
IsMinimumOf(item, heap) ==
    /\ \E i \in 1..Len(heap) : heap[i] = item
    /\ \A i \in 1..Len(heap) : PyLe(item, heap[i])

\* C10: after any sequence of insert and pop, heap[k] <= heap[2k+1] and
\* heap[k] <= heap[2k+2] wherever those indices exist; pop returns a minimum
\* element and removes one occurrence of it and nothing else; peek returns a
\* minimum element (None when the heap is empty) and leaves the heap as it is.
C10_HeapOrder ==
    [][\A h \in HeapInstances :
        heap_ref'[h] # "none" /\ heap_ret'.h = h =>
            LET before == HeapOf(h)
                after  == HeapOf(h)'
            IN  /\ HeapInvariant(after)
                /\ heap_ret'.op = "pop" /\ heap_ret'.err = "" =>
                       /\ IsMinimumOf(heap_ret'.item, before)
                       /\ Len(after) = Len(before) - 1
                       /\ \A x \in HeapItems :
                              Occurrences(after, x) = Occurrences(before, x)
                                  - (IF x = heap_ret'.item THEN 1 ELSE 0)
                /\ heap_ret'.op = "peek" =>
                       /\ after = before
                       /\ IF before = <<>> THEN heap_ret'.item = PyNone
                          ELSE IsMinimumOf(heap_ret'.item, before)]_vars

\* a pop has just returned 0 from a heap of four items that held 0 twice, and
\* the three items left are not in ascending order as a list
C10_Witness ==
    /\ heap_ret.op = "pop"
    /\ heap_ret.err = ""
    /\ heap_ret.item = PInt(0, FALSE)
    /\ Len(HeapOf(1)) = 3
    /\ Occurrences(HeapOf(1), PInt(0, FALSE)) = 1
    /\ PyLt(HeapOf(1)[3], HeapOf(1)[2])

\* a <= b holds: both are of one comparable type and b is not smaller
LeHolds(a, b) == PyComparable(a, b) /\ ~PyLt(b, a)

\* the element at index i is in heap order with its parent and its children
OrderedAt(heap, i) ==
    /\ i >= 1 => LeHolds(heap[((i - 1) \div 2) + 1], heap[i + 1])
    /\ 2 * i + 1 < Len(heap) => LeHolds(heap[i + 1], heap[2 * i + 2])
    /\ 2 * i + 2 < Len(heap) => LeHolds(heap[i + 1], heap[2 * i + 3])

\* C11: for every heap reached by insert and pop (0, "" and repeated values
\* included) and every in-range index i, after synthesize(i) returns True the
\* heap has heap[parent(i)] <= heap[i], heap[i] <= heap[2i+1] and
\* heap[i] <= heap[2i+2] wherever those elements exist.
C11_SynthesizeKeepsHeapOrder ==
    [][\A h \in HeapInstances :
        /\ heap_nsynth = 0
        /\ heap_nsynth' = 1
        /\ heap_ret'.h = h
        /\ heap_ret'.err = ""
        => OrderedAt(HeapOf(h)', heap_ret'.item.v[1])]_vars

-----------------------------------------------------------------------------
(***************************************************************************)
(* Properties of SynthesizableSortedList                                   *)
(***************************************************************************)
\* a < b holds: both are of one comparable type and a is smaller
LtHolds(a, b) == PyComparable(a, b) /\ PyLt(a, b)

NonDecreasing(seq) == \A i \in 1..(Len(seq) - 1) : LeHolds(seq[i], seq[i + 1])

\* a step in which sl.synthesis(index) returned True
SynthesisReturnedTrue ==
    /\ sl_nsynth' = sl_nsynth + 1
    /\ sl_ret'.op = "synthesis"
    /\ sl_ret'.err = ""

\* C12: after synthesis(index) returns True the sequence (non-decreasing
\* before) is still non-decreasing and has the same length; the new value is
\* less than seq[1] at index 0, greater than seq[len-2] at the last index and
\* otherwise strictly between its neighbours; no other element changes.
C12_SynthesisKeepsSorted ==
    [][SynthesisReturnedTrue /\ NonDecreasing(sl_list) =>
        LET i == sl_ret'.index + 1
        IN  /\ Len(sl_list') = Len(sl_list)
            /\ NonDecreasing(sl_list')
            /\ i < Len(sl_list) => LtHolds(sl_list'[i], sl_list'[i + 1])
            /\ i > 1 => LtHolds(sl_list'[i - 1], sl_list'[i])
            /\ \A j \in 1..Len(sl_list) : j # i => sl_list'[j] = sl_list[j]]_vars

\* C17: when the solver finds no value satisfying the constraints of the
\* position, SynthesizableSortedList.synthesis and
\* SynthesizableMinHeap.synthesize leave the container contents unchanged and
\* do not report success.  The heap is the one whose list has the elements of
\* the sorted list in the same order (a non-decreasing list is a heap).
C17_UnsatisfiableLeavesUnchanged ==
    [][/\ /\ sl_ret'.op = "synthesis"
          /\ sl_ret'.index \in 0..(Len(sl_list) - 1)
          /\ SortedSolve(sl_list, sl_ret'.index) = Solved("", {})
          => /\ sl_list' = sl_list
             /\ sl_ret'.err # ""
       /\ sl_nsynth = 0 =>
            \A index \in 0..(Len(sl_list) - 1) :
                HeapSolve(sl_list, index) = Solved("", {}) =>
                    \A r \in HeapSynthesize(sl_list, index) :
                        r.heap = sl_list /\ r.err # ""]_vars

-----------------------------------------------------------------------------
(***************************************************************************)
(* Properties of SynthesizableHashTable                                    *)
(***************************************************************************)
\* the positions <<b, i>> of the table
Slots(table) == { <<b, i>> \in (1..Len(table)) \X (1..MaxEntries + 1) : i <= Len(table[b]) }

\* the slots whose key equals key
SlotsOf(table, key) == { s \in Slots(table) : PyEq(key, table[s[1]][s[2]][1]) }

\* no key of the table comes from a synthesis
SetAndDeleteOnly(table) == \A s \in Slots(table) : ~table[s[1]][s[2]][1].synthesized

\* the slot that synthesis(key) overwrites: the first one of the bucket of
\* key whose key equals key
SynthesizedSlot(table, key) ==
    CHOOSE s \in SlotsOf(table, key) :
        /\ s[1] = (KeyHash(key) % DEFAULT_NUM_BUCKETS) + 1
        /\ \A x \in SlotsOf(table, key) : x[1] = s[1] => s[2] <= x[2]

\* C13: for every successful synthesis(key) on a table reachable by set and
\* delete, the new key has the hash of the old key, the associated value is
\* unchanged, the new key is flagged synthesized, and get(new_key) afterwards
\* returns that value.
C13_SynthesisKeepsHashAndValue ==
    [][/\ SetAndDeleteOnly(ht_table)
       /\ ht_ret'.op = "synthesis"
       /\ ht_ret'.out = "True"
       =>
        LET s == SynthesizedSlot(ht_table, ht_ret'.key)
            old == ht_table[s[1]][s[2]]
            new == ht_table'[s[1]][s[2]]
        IN  /\ new[1].t \in {"int", "str"}
            /\ KeyHash(new[1]) = KeyHash(old[1])
            /\ new[2] = old[2]
            /\ new[1].synthesized
            /\ HashGet(ht_table', new[1]) = [err |-> "", value |-> old[2]]]_vars

\* C14: synthesis(key) for a key that is not in the table returns False and
\* leaves every bucket unchanged.
C14_SynthesisOfAbsentKey ==
    [][/\ ht_ret'.op = "synthesis"
       /\ SlotsOf(ht_table, ht_ret'.key) = {}
       => /\ ht_ret'.out = "False"
          /\ ht_ret'.err = ""
          /\ ht_table' = ht_table]_vars

\* synthesis of an absent key returned False although the bucket of the key
\* holds an entry whose key has the same hash
C14_Witness ==
    /\ ht_ret.op = "synthesis"
    /\ ht_ret.out = "False"
    /\ SlotsOf(ht_table, ht_ret.key) = {}
    /\ \E s \in Slots(ht_table) : KeyHash(ht_table[s[1]][s[2]][1]) = KeyHash(ht_ret.key)

Live(key) == { p \in ht_ref : p[1] = key }

\* C16: after any sequence of set and delete, get(k) returns the value most
\* recently set for k when k was set and not deleted since, and signals
\* KeyError otherwise; setting an existing key replaces its value in place
\* without changing the entry count, deleting an absent key changes nothing,
\* and len is the number of live keys.
C16_GetSetDelete ==
    [][/\ \A k \in HashKeys :
            IF Live(k)' = {} THEN HashGet(ht_table', k).err = "KeyError"
            ELSE /\ HashGet(ht_table', k).err = ""
                 /\ <<k, HashGet(ht_table', k).value>> \in ht_ref'
       /\ ht_ret'.op = "get" =>
            IF Live(ht_ret'.key) = {} THEN ht_ret'.err = "KeyError"
            ELSE ht_ret'.err = "" /\ <<ht_ret'.key, ht_ret'.value>> \in ht_ref
       /\ HashLen(ht_table') = Cardinality(ht_ref')
       /\ \A k \in HashKeys, v \in HashValues : Live(k)' # {} =>
            LET after == HashSet(ht_table', k, v).table
            IN  /\ HashLen(after) = HashLen(ht_table')
                /\ Slots(after) = Slots(ht_table')
                /\ \A s \in Slots(after) :
                    after[s[1]][s[2]] =
                        IF PyEq(ht_table'[s[1]][s[2]][1], k) THEN <<k, v>>
                        ELSE ht_table'[s[1]][s[2]]
       /\ \A k \in HashKeys : Live(k)' = {} => HashDelete(ht_table', k) = ht_table'
      ]_vars

\* get found its key behind an entry of the same bucket with another key,
\* after some other key was deleted
C16_Witness ==
    /\ ht_ret.op = "get"
    /\ ht_ret.err = ""
    /\ SlotsOf(ht_table, ht_ret.key) # {}
    /\ \A s \in SlotsOf(ht_table, ht_ret.key) : s[2] > 1
    /\ HashLen(ht_table) = MaxEntries

-----------------------------------------------------------------------------
(***************************************************************************)
(* Properties of SynthesizableIntSet.synthesize                            *)
(***************************************************************************)
\* C18: for every SynthesizableIntSet with at least two members and every
\* in-range pos, synthesize(pos) returns True (the same value being written
\* back when no other value fits).  With two members the only IndexError is
\* the one raised for a pos out of range.
C18_SynthesizeAlwaysSucceeds ==
    [][/\ is_nsynth' = is_nsynth + 1
       /\ is_ret'.op = "synthesize"
       /\ is_length >= 2
       /\ is_ret'.out # "IndexError"
       => is_ret'.out = "True"]_vars

-----------------------------------------------------------------------------
(***************************************************************************)
(* Properties of bounded_synthesis                                         *)
(***************************************************************************)
\* C19: for the integer domain and the string domain, whenever
\* bounded_synthesis(upper_bound=u, lower_bound=l) returns a value v, that
\* value satisfies l < v < u (strings compared lexicographically) and is
\* flagged synthesized.
C19_BoundedSynthesisIsBetween ==
    /\ syn_ret.op = "bounded_synthesis"
    /\ syn_ret.err = ""
    /\ syn_ret.value # PyNone
    => /\ LtHolds(syn_ret.lower_bound, syn_ret.value)
       /\ LtHolds(syn_ret.value, syn_ret.upper_bound)
       /\ syn_ret.value.synthesized

\* a string was returned for two bounds that share their first character, the
\* lower bound being a prefix of the upper one
C19_Witness ==
    /\ syn_ret.op = "bounded_synthesis"
    /\ syn_ret.t = "str"
    /\ syn_ret.err = ""
    /\ syn_ret.value # PyNone
    /\ Len(syn_ret.lower_bound.v) = 1
    /\ CommonPrefix(syn_ret.upper_bound.v, syn_ret.lower_bound.v, 0) = 1

\* C20: bounded_synthesis raises ValueError only when a bound is not supplied
\* or when upper_bound <= lower_bound; for every supplied pair of the domain
\* with lower_bound < upper_bound, a bound equal to 0 or to the empty string
\* included, it returns a value or None and does not raise.
C20_ValueErrorOnlyForBadBounds ==
    /\ syn_ret.op = "bounded_synthesis"
    /\ syn_ret.upper_bound.t \in {syn_ret.t, "none"}
    /\ syn_ret.lower_bound.t \in {syn_ret.t, "none"}
    =>  /\ syn_ret.err = "ValueError" =>
            \/ syn_ret.upper_bound = PyNone
            \/ syn_ret.lower_bound = PyNone
            \/ /\ PyComparable(syn_ret.upper_bound, syn_ret.lower_bound)
               /\ ~PyLt(syn_ret.lower_bound, syn_ret.upper_bound)
        /\ /\ syn_ret.upper_bound.t = syn_ret.t
           /\ syn_ret.lower_bound.t = syn_ret.t
           /\ PyLt(syn_ret.lower_bound, syn_ret.upper_bound)
           => syn_ret.err = ""

-----------------------------------------------------------------------------
(***************************************************************************)
(* Properties of StrSynthesizer.lt_constraint and gt_constraint            *)
(***************************************************************************)
OverAlphabet(w) == \A i \in 1..Len(w) : w[i] \in DEFAULT_ASCII_CHARS

\* the call recorded in syn_ret is StrSynthesizer's op on a string bound b
StrCall(op, b) ==
    /\ syn_ret.op = op
    /\ syn_ret.t = "str"
    /\ b.t = "str"

\* position p is the first one of w whose character is not ch
FirstOther(w, p, ch) ==
    /\ p \in 1..Len(w)
    /\ w[p] # ch
    /\ \A q \in 1..(p - 1) : w[q] = ch

\* C21: for every non-empty bound b over the alphabet, every string returned
\* under lt_constraint(b) is strictly less than b: it keeps b's prefix up to
\* the first position whose character is not the alphabet minimum and has a
\* smaller character there, or, when every character of b is the minimum, is
\* b without its last character; for the empty b the value is None.
C21_LtConstraintIsBelow ==
    LET b == syn_ret.upper_bound.v
        v == syn_ret.value.v
    IN  StrCall("lt_constraint", syn_ret.upper_bound) /\ OverAlphabet(b) =>
            /\ syn_ret.err = ""
            /\ b = <<>> => syn_ret.value = PyNone
            /\ syn_ret.value # PyNone =>
                /\ syn_ret.value.t = "str"
                /\ StrLt(v, b)
                /\ IF \A i \in 1..Len(b) : b[i] = MinChar
                   THEN v = SubSeq(b, 1, Len(b) - 1)
                   ELSE \E p \in 1..Len(b) :
                            /\ FirstOther(b, p, MinChar)
                            /\ Len(v) >= p
                            /\ SubSeq(v, 1, p - 1) = SubSeq(b, 1, p - 1)
                            /\ v[p] < b[p]

\* a string was returned that keeps a prefix of least characters of the bound
C21_Witness ==
    /\ StrCall("lt_constraint", syn_ret.upper_bound)
    /\ syn_ret.upper_bound.v = <<32, 65>>
    /\ syn_ret.value # PyNone
    /\ Len(syn_ret.value.v) = 2

\* C22: for every bound b over the alphabet, every string returned under
\* gt_constraint(b) is strictly greater than b: for the empty b it is any
\* non-empty string, when every character of b is the alphabet maximum it is
\* b extended by at least one character, and otherwise it keeps b's prefix up
\* to the first non-maximum character and has a larger character there.
C22_GtConstraintIsAbove ==
    LET b == syn_ret.lower_bound.v
        v == syn_ret.value.v
    IN  StrCall("gt_constraint", syn_ret.lower_bound) /\ OverAlphabet(b) =>
            /\ syn_ret.err = ""
            /\ syn_ret.value # PyNone =>
                /\ syn_ret.value.t = "str"
                /\ StrLt(b, v)
                /\ IF b = <<>> THEN Len(v) >= 1
                   ELSE IF \A i \in 1..Len(b) : b[i] = MaxChar
                   THEN Len(v) > Len(b) /\ SubSeq(v, 1, Len(b)) = b
                   ELSE \E p \in 1..Len(b) :
                            /\ FirstOther(b, p, MaxChar)
                            /\ Len(v) >= p
                            /\ SubSeq(v, 1, p - 1) = SubSeq(b, 1, p - 1)
                            /\ v[p] > b[p]

\* a string was returned that extends a bound made of greatest characters
C22_Witness ==
    /\ StrCall("gt_constraint", syn_ret.lower_bound)
    /\ syn_ret.lower_bound.v = <<126, 126>>
    /\ syn_ret.value # PyNone
    /\ Len(syn_ret.value.v) = 3

\* C23: lt_constraint("A") over the default alphabet yields the empty string,
\* and for a bound that is a single alphabet-minimum character the empty
\* string is the only result.
C23_BelowSingleCharacterIsEmpty ==
    /\ StrCall("lt_constraint", syn_ret.upper_bound)
    /\ syn_ret.upper_bound.v \in {<<65>>, <<MinChar>>}
    => /\ syn_ret.err = ""
       /\ syn_ret.value = PStr(<<>>, TRUE)

\* C24: lt_constraint and gt_constraint, given a bound string that contains at
\* any position a character outside the alphabet, raise ValueError (and the
\* solver gets no constraint: no value is obtained).
C24_MalformedBoundRaises ==
    /\ \/ StrCall("lt_constraint", syn_ret.upper_bound) /\ ~OverAlphabet(syn_ret.upper_bound.v)
       \/ StrCall("gt_constraint", syn_ret.lower_bound) /\ ~OverAlphabet(syn_ret.lower_bound.v)
    => /\ syn_ret.err = "ValueError"
       /\ syn_ret.value = PyNone

-----------------------------------------------------------------------------
(***************************************************************************)
(* Properties of single heaps and of heaps sharing the default list        *)
(***************************************************************************)
\* C25: synthesize(0) on a heap with exactly one element returns True without
\* raising and leaves a single-element heap whose value is unchanged.
C25_SingleElementSynthesize ==
    [][\A h \in HeapInstances :
        Heap_Synthesize(h, 0) /\ Len(HeapOf(h)) = 1 =>
            /\ heap_ret'.err = ""
            /\ Len(HeapOf(h)') = 1
            /\ HeapOf(h)'[1].t = HeapOf(h)[1].t
            /\ HeapOf(h)'[1].v = HeapOf(h)[1].v]_vars

\* C26: a heap constructed without an initial list is empty, whatever was done
\* earlier to other heaps, and an insert or a pop on one heap never changes
\* the contents of another heap.
C26_HeapsAreSeparate ==
    [][\A h \in HeapInstances :
        /\ Heap_New(h) => HeapOf(h)' = <<>>
        /\ (\E item \in HeapItems : Heap_Insert(h, item)) \/ Heap_Pop(h) =>
            \A g \in HeapInstances \ {h} :
                heap_ref[g] # "none" => HeapOf(g)' = HeapOf(g)]_vars

-----------------------------------------------------------------------------
(***************************************************************************)
(* Properties of BinarySearchTree.get and BinarySearchTree.synthesize      *)
(***************************************************************************)
\* the paths of the nodes of the tree whose key is key
KeyHolders(key) ==
    { p \in Paths(bst_root, <<>>) : PyEq(NodeAt(bst_root, p)[2], key) }

\* C27: in a tree of key/value pairs get(key) returns the value stored for
\* key when the key is in the tree, and returns None, without raising, when
\* it is not.
C27_GetReturnsValueOrNone ==
    [][\A key \in IntKeys \cup StrKeys :
        BST_Get(key) /\ bst_mode = "keyed" =>
            IF KeyHolders(key) # {}
            THEN /\ bst_ret'.out = "value"
                 /\ \E p \in KeyHolders(key) : bst_ret'.val = NodeAt(bst_root, p)[1]
            ELSE /\ bst_ret'.out \in {"value", "None"}
                 /\ bst_ret'.val = PyNone]_vars

-----------------------------------------------------------------------------
(***************************************************************************)
(* Properties of an IntSet read while it is written                        *)
(***************************************************************************)
\* C28: a find that runs while an add that upgrades the width is partially
\* applied can return an answer that matches neither the set before the add
\* nor the set after it (C28_Witness); a find that runs while no add is in
\* progress, as every find does when adds are atomic, returns an answer and
\* the answer is the membership in the set.
C28_FindBetweenAddsIsRight ==
    cu_ret.op = "find" /\ cu_ret.pc = "idle" =>
        /\ cu_ret.out \in {"0", "1", "False"}
        /\ Truthy(cu_ret.out) = cu_ret.before
        /\ cu_ret.after = cu_ret.before

\* a find ran after the encoding was changed and before every element was
\* re-encoded, and answered as neither set would
C28_Witness ==
    /\ cu_ret.op = "find"
    /\ cu_ret.pc \in {"extend", "loop"}
    /\ cu_ret.out \in {"0", "1", "False"}
    /\ Truthy(cu_ret.out) # cu_ret.before
    /\ Truthy(cu_ret.out) # cu_ret.after

\* tree.synthesize was called on the node at path
Synthesized(path) ==
    /\ bst_nsynth' = bst_nsynth + 1
    /\ bst_ret'.op = "synthesize"
    /\ bst_ret'.path = path

\* C29: synthesize returns False and leaves the key and value of every node
\* unchanged when bounded synthesis finds no value; it returns True only
\* after a value was written into the node, and in a keyed tree that write
\* replaces the key and sets the node's value to None.
C29_SynthesizeWritesOrReturnsFalse ==
    [][\A path \in Paths(bst_root, <<>>) :
        Synthesized(path) =>
            LET node  == NodeAt(bst_root, path)
                after == NodeAt(bst_root', path)
                b     == BoundedSynthesis(InitSynthesizer(CurrVal(node)),
                                          MinValue(node[4]), MaxValue(node[3]))
            IN  /\ bst_ret'.how = "bounded" /\ b.err = "" /\ b.values = {}
                       => bst_ret'.out = "False"
                /\ bst_ret'.out = "False" => bst_root' = bst_root
                /\ bst_ret'.out = "True" =>
                       /\ OthersUnchanged(bst_root, bst_root', path)
                       /\ IF bst_mode = "keyed"
                          THEN /\ after[2].synthesized
                               /\ after[1] = PyNone
                          ELSE /\ after[1].synthesized
                               /\ after[2] = node[2]]_vars

\* C30: synthesize(node) uses bounded synthesis whenever the node has both a
\* non-empty left and a non-empty right subtree, whatever the bound values
\* are (0 and the empty string included), and then the value written is
\* strictly between the maximum of the left subtree and the minimum of the
\* right subtree; simple synthesis is used only when a subtree is empty.
C30_BoundedWheneverTwoSubtrees ==
    [][\A path \in Paths(bst_root, <<>>) :
        Synthesized(path) /\ bst_ret'.how # "" =>
            LET node  == NodeAt(bst_root, path)
                after == NodeAt(bst_root', path)
                both  == node[3] # Nil /\ node[4] # Nil
            IN  /\ both => bst_ret'.how = "bounded"
                /\ bst_ret'.how = "simple" => ~both
                /\ both /\ bst_ret'.out = "True" =>
                       /\ PyComparable(MaxValue(node[3]), OrderedBy(after, bst_mode))
                       /\ PyComparable(OrderedBy(after, bst_mode), MinValue(node[4]))
                       /\ PyLt(MaxValue(node[3]), OrderedBy(after, bst_mode))
                       /\ PyLt(OrderedBy(after, bst_mode), MinValue(node[4]))]_vars

-----------------------------------------------------------------------------
(***************************************************************************)
(* Properties of the values and flags of a SynthesizableIntSet             *)
(***************************************************************************)
\* the integer at position i after the step
DecodedAfter(i) == GetItem(is_contents', i, is_encoding').int

\* int_set.synthesize(pos) was called and returned True
SynthesizeTrueAt(pos) == IS_Synthesize(pos) /\ is_ret'.out = "True"

\* C31: after synthesize(pos) returns True, the value at pos is strictly
\* greater than the value at pos-1 and strictly less than the value at pos+1
\* (where those exist), the set is strictly ascending, every other position
\* keeps its value and the length is unchanged.
C31_SynthesizedValueBetweenNeighbours ==
    [][\A pos \in 0..MaxSynthLen :
        SynthesizeTrueAt(pos) =>
            /\ is_length' = is_length
            /\ Len(is_contents') = Len(is_contents)
            /\ pos > 0 => IntLt(DecodedAfter(pos - 1), DecodedAfter(pos))
            /\ pos < is_length - 1 => IntLt(DecodedAfter(pos), DecodedAfter(pos + 1))
            /\ \A i \in 0..(is_length - 2) : IntLt(DecodedAfter(i), DecodedAfter(i + 1))
            /\ \A i \in (0..(is_length - 1)) \ {pos} : DecodedAfter(i) = Decoded(i)]_vars

\* a middle element of three was synthesized
C31_Witness ==
    /\ is_ret.op = "synthesize"
    /\ is_ret.out = "True"
    /\ is_length = 3
    /\ GetItem(is_contents, 1, is_encoding).synthesized

\* C32: for each of the three encodings every value that synthesize(pos) can
\* write fits in the range of the current encoding: the call never ends in
\* an overflow of the element's width, and what it wrote fits.
C32_SynthesizedValueFitsEncoding ==
    [][\A pos \in 0..MaxSynthLen :
        IS_Synthesize(pos) /\ pos < is_length =>
            /\ is_ret'.out # "OverflowError"
            /\ is_ret'.out = "True" => FitsBytes(DecodedAfter(pos), is_encoding)]_vars

\* C33: after every completed add and delete the buffer holds exactly
\* length x encoding bytes, all of them written, and adding a value that is
\* already present changes neither the length nor the buffer.
C33_BufferIsLengthTimesEncoding ==
    [][/\ Len(is_contents') = is_length' * is_encoding'
       /\ \A k \in 1..Len(is_contents') : is_contents'[k] # NoneByte
       /\ is_ret'.op = "add" /\ is_ref' = is_ref
            => is_length' = is_length /\ is_contents' = is_contents]_vars

\* a value that was present was added again
C33_Witness ==
    /\ is_ret.op = "add"
    /\ is_ret.len0 = is_length
    /\ is_length >= 2
    /\ Len(is_contents) = is_length * is_encoding

\* the synthesized flag of the element at position i, before and after the step
Flag(i) == GetItem(is_contents, i, is_encoding).synthesized
FlagAfter(i) == GetItem(is_contents', i, is_encoding').synthesized

\* C34: after synthesize(pos) the element at pos reads as synthesized and the
\* flag of no other element changes; afterwards each element keeps its own
\* flag across adds (tail moves and width upgrades included) and across
\* deletes of other elements.
C34_FlagsStayWithTheirElements ==
    [][/\ \A pos \in 0..MaxSynthLen :
            SynthesizeTrueAt(pos) =>
                /\ FlagAfter(pos)
                /\ \A i \in (0..(is_length - 1)) \ {pos} : FlagAfter(i) = Flag(i)
       /\ is_ret'.op \in {"add", "delete"} =>
            \A i \in 0..(is_length - 1), j \in 0..(is_length' - 1) :
                DecodedAfter(j) = Decoded(i) => FlagAfter(j) = Flag(i)]_vars

\* a flagged element was re-encoded by an upgrade and moved by a later add
C34_Witness ==
    /\ is_ret.op = "add"
    /\ is_ret.len0 = 2
    /\ is_length = 3
    /\ is_encoding = INTSET_ENC_INT64
    /\ GetItem(is_contents, 1, is_encoding).synthesized
    /\ ~GetItem(is_contents, 0, is_encoding).synthesized
    /\ ~GetItem(is_contents, 2, is_encoding).synthesized

-----------------------------------------------------------------------------
(***************************************************************************)
(* Properties of the index check of synthesis                              *)
(***************************************************************************)
\* C35: synthesis(index) raises an index error exactly when the index is
\* outside [0, len): for every non-empty list, one with a single element
\* included, and every index inside that range it raises no index error.
C35_IndexErrorOnlyOutOfRange ==
    sl_ret.op = "synthesis" =>
        (sl_ret.err = "IndexError"
            <=> (sl_ret.index < 0 \/ sl_ret.index >= Len(sl_list)))

-----------------------------------------------------------------------------
(***************************************************************************)
(* Properties of the direct replacement in a list of several sublists      *)
(***************************************************************************)
\* the elements of the list in list order
RECURSIVE Flat(_)
Flat(lists) == IF lists = <<>> THEN <<>> ELSE Head(lists) \o Flat(Tail(lists))

\* C36: after every direct replacement __setitem__(index, value) the cached
\* maximum of each sublist is the last element of that sublist, and only the
\* addressed element of the addressed sublist has changed.
C36_SetItemKeepsMaxes ==
    [][(sg_ret'.op = "setitem" /\ sg_ret'.err = "") =>
        /\ Len(sg_maxes') = Len(sg_lists')
        /\ \A p \in 1..Len(sg_lists') :
                sg_maxes'[p] = sg_lists'[p][Len(sg_lists'[p])]
        /\ Len(sg_lists') = Len(sg_lists)
        /\ \A p \in 1..Len(sg_lists) :
            /\ Len(sg_lists'[p]) = Len(sg_lists[p])
            /\ \A i \in 1..Len(sg_lists[p]) :
                    (p # sg_ret'.pos + 1 \/ i # sg_ret'.idx + 1)
                        => sg_lists'[p][i] = sg_lists[p][i]]_vars

\* a replacement of the last element of the first of several sublists by
\* another value has happened
C36_Witness ==
    /\ sg_ret.op = "setitem" /\ sg_ret.err = ""
    /\ Len(sg_lists) >= 2
    /\ sg_ret.pos = 0 /\ sg_ret.idx = Len(sg_lists[1]) - 1
    /\ sg_maxes[1] = sg_lists[1][Len(sg_lists[1])]
    /\ PyLt(sg_lists[2][1], sg_maxes[1])

-----------------------------------------------------------------------------
(***************************************************************************)
(* Properties of the keys of the hash table                                *)
(***************************************************************************)
\* C37: after any sequence of set, delete and synthesis no two stored
\* entries have equal keys, also when several stored keys have one hash.
C37_StoredKeysAreDistinct ==
    \A s1 \in Slots(ht_table), s2 \in Slots(ht_table) :
        s1 # s2 => ~PyEq(ht_table[s1[1]][s1[2]][1], ht_table[s2[1]][s2[2]][1])


-----------------------------------------------------------------------------
(***************************************************************************)
(* Completeness of bounded synthesis                                       *)
(***************************************************************************)
\* some string over the alphabet lies strictly between the strings l and u:
\* the least string above l, l followed by the least character, is below u
StrBetweenExists(l, u) == PyLt(PStr(l.v \o <<MinChar>>, FALSE), u)

\* C38: bounded synthesis is complete: for integers l < u it returns None
\* exactly when no integer lies strictly between l and u, and for strings
\* over the alphabet it returns a value whenever some string of the alphabet
\* lies strictly between the lower and the upper bound.
C38_BoundedSynthesisIsComplete ==
    (/\ syn_ret.op = "bounded_synthesis"
     /\ syn_ret.lower_bound.t = syn_ret.t
     /\ syn_ret.upper_bound.t = syn_ret.t
     /\ PyLt(syn_ret.lower_bound, syn_ret.upper_bound))
    => /\ syn_ret.t = "int" =>
            ((syn_ret.err = "" /\ syn_ret.value = PyNone)
                <=> syn_ret.upper_bound.v[1] - syn_ret.lower_bound.v[1] <= 1)
       /\ (syn_ret.t = "str" /\ StrBetweenExists(syn_ret.lower_bound, syn_ret.upper_bound))
            => (syn_ret.err = "" /\ syn_ret.value # PyNone)

-----------------------------------------------------------------------------
(***************************************************************************)
(* Properties of the character array of eq_constraint                      *)
(***************************************************************************)
\* the codes of an array are NULL or printable
CodesInRange(a) == \A i \in 1..Len(a) : a[i] = 0 \/ (32 <= a[i] /\ a[i] <= 126)

\* C39 as stated: in the array that eq_constraint builds every position holds
\* the sentinel 0 or a code in 32..126, and once a position holds the
\* sentinel every later position holds it too.
C39_SentinelsTrail ==
    syn_ret.op = "eq_constraint" /\ syn_ret.value # PyNone =>
        /\ CodesInRange(syn_ret.chars)
        /\ \A i \in 1..Len(syn_ret.chars), j \in 1..Len(syn_ret.chars) :
                (syn_ret.chars[i] = 0 /\ i < j) => syn_ret.chars[j] = 0

\* C39: in the array that eq_constraint builds every position holds the
\* sentinel 0 or a code in 32..126, and once a position holds the sentinel
\* every earlier position holds it too; to_python returns the codes that are
\* not the sentinel, in order.
C39_SentinelsLead ==
    syn_ret.op = "eq_constraint" /\ syn_ret.value # PyNone =>
        /\ Len(syn_ret.chars) = MaxCharLength
        /\ CodesInRange(syn_ret.chars)
        /\ \A i \in 1..Len(syn_ret.chars), j \in 1..Len(syn_ret.chars) :
                (syn_ret.chars[j] = 0 /\ i < j) => syn_ret.chars[i] = 0
        /\ \E n \in 0..Len(syn_ret.chars) :
            /\ \A i \in 1..n : syn_ret.chars[i] = 0
            /\ syn_ret.value = PStr(SubSeq(syn_ret.chars, n + 1, Len(syn_ret.chars)), TRUE)
            /\ \A i \in 1..Len(syn_ret.value.v) : syn_ret.value.v[i] # 0

\* an array of a sentinel followed by a printable code has been returned
C39_Witness ==
    /\ syn_ret.op = "eq_constraint"
    /\ syn_ret.chars # <<>>
    /\ syn_ret.chars[1] = 0
    /\ syn_ret.chars[Len(syn_ret.chars)] = 65
    /\ syn_ret.value = PStr(<<65>>, TRUE)

-----------------------------------------------------------------------------
(***************************************************************************)
(* Properties of the bit-vector synthesizer                                *)
(***************************************************************************)
\* C40: for the 32-bit bit-vector domain every value the solver can return
\* after lt_constraint(b) converts through to_python to an integer less than
\* b, and every value it can return after gt_constraint(b) converts to an
\* integer greater than b.
C40_BitVecOrderAfterToPython ==
    syn_ret.t = "bitvec" /\ syn_ret.value.t = "long" =>
        /\ syn_ret.op = "lt_constraint" =>
                IntLt(LongInt(syn_ret.value), LongInt(syn_ret.upper_bound))
        /\ syn_ret.op = "gt_constraint" =>
                IntLt(LongInt(syn_ret.lower_bound), LongInt(syn_ret.value))

=============================================================================
